---- MODULE Spec2Model ----
(***************************************************************************)
(* MetadataSyncer: the metadata analysis and sync engine                   *)
(* (analyze_file_metadata, perform_sync_operation, get_effective_timezone) *)
(* and the MetadataSyncerApp event handlers that drive it.                 *)
(*                                                                         *)
(* Conventions.                                                            *)
(*   - Python None is the empty tuple <<>>; a present value v is <<v>>.     *)
(*   - A Python dict is a function from its keys; {} is the empty          *)
(*     function (which is <<>> as well: `if d:` treats None and {} alike). *)
(*   - A Python str that the code slices, parses or formats is a sequence  *)
(*     of one-character strings; a str the code only passes around (a      *)
(*     path, a zone name, an option) is a TLA+ string.                     *)
(*   - One command-line argument is [text, chars]: the str text + chars.   *)
(***************************************************************************)
EXTENDS Integers, Sequences, FiniteSets, TLC

VARIABLES
    sync_call,      \* arguments of one perform_sync_operation call, with the tool's behaviour
    sync_ret,       \* <<>> before the call, then what the call did
    an_call,        \* arguments of one analyze_file_metadata call, with the tool's behaviour
    an_ret,         \* <<>> before the call, then what the call did
    tz_call,        \* arguments of one get_effective_timezone call
    tz_ret,         \* <<>> before the call, then <<result>>
    cli_call,       \* the arguments of one command-line run, with what the environment does
    cli_ret         \* <<>> before the run, then what the run did

\* MetadataSyncerApp and its widgets
VARIABLES
    GEOPY_AVAILABLE,    \* did the geopy import succeed
    self_exiftool_cmd,  \* self.exiftool_cmd
    source_zone,        \* source_zone.current_file
    target_zone,        \* target_zone.current_file
    current_tz,         \* tz_selector.current_tz
    chk_date, chk_gps, chk_cam,
    current_metadata,
    analysis_thread,    \* None, or the worker [file_path, running, id]; id numbers the workers
    geo_thread,         \* None, or the worker [gps, running]
    events,             \* signals queued to the GUI thread, oldest first, each with its sender
    dialogs,            \* the open "Read Error" boxes, innermost last; each holds its handler's data
    lbl_date, lbl_loc, lbl_cam,
    settings,           \* QSettings: last_tz, copy_date, copy_gps, copy_cam
    last_sync,          \* the last perform_sync_operation call of run_sync and what it did,
                        \* with the date row and the held worker id at the click
    user_tz,            \* history: the zone the user last picked in the selector, None before
    closed,             \* the window was closed
    used                \* history: how many drops, picks, toggles and syncs the user made,
                        \* which worker's record the window holds (held, 0 for none) and how
                        \* many refreshes found an address memoized (memo)

call_vars == <<sync_call, sync_ret, an_call, an_ret, tz_call, tz_ret, cli_call, cli_ret>>

gui_vars ==
    <<GEOPY_AVAILABLE, self_exiftool_cmd, source_zone, target_zone, current_tz,
      chk_date, chk_gps, chk_cam, current_metadata, analysis_thread, geo_thread, events,
      dialogs, lbl_date, lbl_loc, lbl_cam, settings, last_sync, user_tz, closed, used>>

vars == <<call_vars, gui_vars>>

-----------------------------------------------------------------------------
(* Values *)

None == <<>>
Some(v) == <<v>>
IsSome(o) == o # <<>>
Val(o) == o[1]

\* dict.get(key): the value, or None for a missing key
Get(d, key) == IF key \in DOMAIN d THEN d[key] ELSE None

\* bool(x) of an optional str: None and "" are falsy
TruthyStr(o) == IsSome(o) /\ Val(o) # ""
\* the same for a str kept as a sequence of characters
TruthyChars(o) == IsSome(o) /\ Val(o) # <<>>
\* bool(d) of a dict, or of None
TruthyDict(d) == DOMAIN d # {}

DEFAULT_TIMEZONE == "UTC"

\* a local name: body with x bound to value
Then(value, body(_)) == body(value)

-----------------------------------------------------------------------------
(* Characters *)

Digits == {"0", "1", "2", "3", "4", "5", "6", "7", "8", "9"}
Whitespace == {" ", "\t"}

DigitVal(c) ==
    CASE c = "0" -> 0 [] c = "1" -> 1 [] c = "2" -> 2 [] c = "3" -> 3
      [] c = "4" -> 4 [] c = "5" -> 5 [] c = "6" -> 6 [] c = "7" -> 7
      [] c = "8" -> 8 [] c = "9" -> 9 [] OTHER -> 0

DigitChar(n) == <<"0", "1", "2", "3", "4", "5", "6", "7", "8", "9">>[n + 1]

\* the character at position p, "" past the end
At(s, p) == IF p >= 1 /\ p <= Len(s) THEN s[p] ELSE ""

\* s[:n]
Prefix(s, n) == SubSeq(s, 1, IF Len(s) < n THEN Len(s) ELSE n)

Pad2(n) == <<DigitChar((n \div 10) % 10), DigitChar(n % 10)>>
Pad4(n) == <<DigitChar((n \div 1000) % 10), DigitChar((n \div 100) % 10)>> \o Pad2(n % 100)

-----------------------------------------------------------------------------
(* datetime.strptime(raw, "%Y:%m:%d %H:%M:%S")                              *)
(* The format compiles to the regular expression                           *)
(*   (\d\d\d\d):(1[0-2]|0[1-9]|[1-9]):(3[0-1]|[1-2]\d|0[1-9]|[1-9]| [1-9])  *)
(*   \s+(2[0-3]|[0-1]\d|\d):([0-5]\d|\d):(6[0-1]|[0-5]\d|\d)                *)
(* matched at the start of the string; text left after the match, or a     *)
(* field datetime() rejects, raises ValueError.                            *)

Fail == <<>>

\* one alternative of a field: its length and value when it matches
Alt(cond, len, val) == IF cond THEN << <<len, val>> >> ELSE <<>>

V1(s, p) == DigitVal(At(s, p))
V2(s, p) == 10 * DigitVal(At(s, p)) + DigitVal(At(s, p + 1))
NonZero == Digits \ {"0"}

month_alts(s, p) ==
    Alt(At(s, p) = "1" /\ At(s, p + 1) \in {"0", "1", "2"}, 2, V2(s, p))
    \o Alt(At(s, p) = "0" /\ At(s, p + 1) \in NonZero, 2, V2(s, p))
    \o Alt(At(s, p) \in NonZero, 1, V1(s, p))

day_alts(s, p) ==
    Alt(At(s, p) = "3" /\ At(s, p + 1) \in {"0", "1"}, 2, V2(s, p))
    \o Alt(At(s, p) \in {"1", "2"} /\ At(s, p + 1) \in Digits, 2, V2(s, p))
    \o Alt(At(s, p) = "0" /\ At(s, p + 1) \in NonZero, 2, V2(s, p))
    \o Alt(At(s, p) \in NonZero, 1, V1(s, p))
    \o Alt(At(s, p) = " " /\ At(s, p + 1) \in NonZero, 2, V1(s, p + 1))

hour_alts(s, p) ==
    Alt(At(s, p) = "2" /\ At(s, p + 1) \in {"0", "1", "2", "3"}, 2, V2(s, p))
    \o Alt(At(s, p) \in {"0", "1"} /\ At(s, p + 1) \in Digits, 2, V2(s, p))
    \o Alt(At(s, p) \in Digits, 1, V1(s, p))

minute_alts(s, p) ==
    Alt(At(s, p) \in {"0", "1", "2", "3", "4", "5"} /\ At(s, p + 1) \in Digits, 2, V2(s, p))
    \o Alt(At(s, p) \in Digits, 1, V1(s, p))

second_alts(s, p) ==
    Alt(At(s, p) = "6" /\ At(s, p + 1) \in {"0", "1"}, 2, V2(s, p))
    \o Alt(At(s, p) \in {"0", "1", "2", "3", "4", "5"} /\ At(s, p + 1) \in Digits, 2, V2(s, p))
    \o Alt(At(s, p) \in Digits, 1, V1(s, p))

\* The first alternative after which the next pattern element matches. The
\* alternatives of one field that can be followed by that element never
\* overlap, so trying the next element decides the whole backtracking search.
Follows(next, s, p) ==
    CASE next = ":" -> At(s, p) = ":"
      [] next = "\\s+" -> At(s, p) \in Whitespace
      [] next = "$" -> TRUE

FirstAlt(alts, s, p, next) ==
    LET ok == SelectSeq(alts, LAMBDA a : Follows(next, s, p + a[1]))
    IN  IF ok = <<>> THEN Fail ELSE Some(Head(ok))

\* \s+ is greedy: the position after the run of whitespace starting at p
RECURSIVE SkipSpace(_, _)
SkipSpace(s, p) == IF At(s, p) \in Whitespace THEN SkipSpace(s, p + 1) ELSE p

IsLeap(y) == (y % 4 = 0 /\ y % 100 # 0) \/ y % 400 = 0

DaysInMonth(y, m) ==
    IF m = 2 THEN (IF IsLeap(y) THEN 29 ELSE 28)
    ELSE IF m \in {4, 6, 9, 11} THEN 30 ELSE 31

\* None on ValueError, else the naive datetime
strptime(s) ==
    IF ~(\A i \in 1..4 : At(s, i) \in Digits) \/ At(s, 5) # ":" THEN Fail ELSE
    Then(1000 * V1(s, 1) + 100 * V1(s, 2) + V2(s, 3), LAMBDA Y :
    Then(FirstAlt(month_alts(s, 6), s, 6, ":"), LAMBDA mo :
        IF mo = Fail THEN Fail ELSE
    Then(6 + Val(mo)[1] + 1, LAMBDA p1 :
    Then(FirstAlt(day_alts(s, p1), s, p1, "\\s+"), LAMBDA d :
        IF d = Fail THEN Fail ELSE
    Then(SkipSpace(s, p1 + Val(d)[1]), LAMBDA p2 :
    Then(FirstAlt(hour_alts(s, p2), s, p2, ":"), LAMBDA H :
        IF H = Fail THEN Fail ELSE
    Then(p2 + Val(H)[1] + 1, LAMBDA p3 :
    Then(FirstAlt(minute_alts(s, p3), s, p3, ":"), LAMBDA M :
        IF M = Fail THEN Fail ELSE
    Then(p3 + Val(M)[1] + 1, LAMBDA p4 :
    Then(FirstAlt(second_alts(s, p4), s, p4, "$"), LAMBDA S :
        IF S = Fail THEN Fail ELSE
        IF p4 + Val(S)[1] # Len(s) + 1 THEN Fail      \* unconverted data remains
        ELSE IF Y < 1 \/ Val(S)[2] > 59 \/ Val(d)[2] > DaysInMonth(Y, Val(mo)[2]) THEN Fail
        ELSE Some([year |-> Y, month |-> Val(mo)[2], day |-> Val(d)[2],
                   hour |-> Val(H)[2], minute |-> Val(M)[2], second |-> Val(S)[2]])
    ))))))))))

-----------------------------------------------------------------------------
(* datetime arithmetic and the zoneinfo database                           *)

\* date.toordinal(): days since 0001-01-01, which is day 1
toordinal(y, m, d) ==
    Then(IF m <= 2 THEN y - 1 ELSE y, LAMBDA yy :
    Then(yy % 400, LAMBDA yoe :
    Then(IF m > 2 THEN m - 3 ELSE m + 9, LAMBDA mp :
        (yy \div 400) * 146097 + yoe * 365 + yoe \div 4 - yoe \div 100
        + (153 * mp + 2) \div 5 + d - 1 - 305)))

\* date.fromordinal()
fromordinal(n) ==
    Then((n + 305) \div 146097, LAMBDA era :
    Then((n + 305) % 146097, LAMBDA doe :
    Then((doe - doe \div 1460 + doe \div 36524 - doe \div 146096) \div 365, LAMBDA yoe :
    Then(doe - (365 * yoe + yoe \div 4 - yoe \div 100), LAMBDA doy :
    Then((5 * doy + 2) \div 153, LAMBDA mp :
    Then(IF mp < 10 THEN mp + 3 ELSE mp - 9, LAMBDA m :
        [year  |-> yoe + era * 400 + (IF m <= 2 THEN 1 ELSE 0),
         month |-> m,
         day   |-> doy - (153 * mp + 2) \div 5 + 1]))))))

MAXORDINAL == 3652059       \* date.max = 9999-12-31
SecondsPerDay == 86400

\* the day and the second of the day of a naive datetime
Ordinal(dt) == toordinal(dt.year, dt.month, dt.day)
DaySeconds(dt) == dt.hour * 3600 + dt.minute * 60 + dt.second

\* dt is at or after hour h of day n
AtOrAfter(dt, n, h) == Ordinal(dt) > n \/ (Ordinal(dt) = n /\ DaySeconds(dt) >= h * 3600)

\* date.weekday(): Monday is 0, Sunday is 6
weekday(n) == (n + 6) % 7

\* ordinals of the last and of the k-th Sunday of a month
LastSunday(y, m) ==
    Then(toordinal(y, m, DaysInMonth(y, m)), LAMBDA last :
        last - ((weekday(last) + 1) % 7))
NthSunday(y, m, k) ==
    Then(toordinal(y, m, 1), LAMBDA first :
        first + ((6 - weekday(first)) % 7) + 7 * (k - 1))

\* The zones of the tz database this model carries. Any other key makes
\* ZoneInfo(key) raise (ZoneInfoNotFoundError, or ValueError for "").
KnownZones == {"UTC", "Europe/Rome", "Asia/Tokyo", "America/New_York", "Asia/Kolkata"}

\* one fixed offset per zone, whatever the date
utcoffset_fixed(zone, dt) ==
    CASE zone = "UTC" -> 0
      [] zone = "Asia/Tokyo" -> 32400
      [] zone = "Asia/Kolkata" -> 19800
      [] zone = "Europe/Rome" -> 3600
      [] zone = "America/New_York" -> 0 - 18000

\* tzinfo.utcoffset(dt) in seconds for a naive wall time with fold = 0: in a
\* spring-forward gap the offset before the transition, in an autumn overlap
\* the first (summer) reading. Before 1850 every zone but UTC is on local
\* mean time, whose offset has seconds. Later years follow tzdata's current
\* rules: Europe/Rome the EU rule (last Sunday of March to last Sunday of
\* October), America/New_York the US rule (second Sunday of March to first
\* Sunday of November). The historical rules of 1850..2006 are not carried;
\* the timestamps this model draws lie outside those years.
utcoffset(zone, dt) ==
    CASE zone = "UTC" -> 0
      [] zone = "Asia/Tokyo" -> IF dt.year < 1850 THEN 33539 ELSE 32400
      [] zone = "Asia/Kolkata" -> IF dt.year < 1850 THEN 21208 ELSE 19800
      [] zone = "Europe/Rome" ->
            IF dt.year < 1850 THEN 2996
            ELSE IF /\ AtOrAfter(dt, LastSunday(dt.year, 3), 3)
                    /\ ~AtOrAfter(dt, LastSunday(dt.year, 10), 3)
                 THEN 7200 ELSE 3600
      [] zone = "America/New_York" ->
            IF dt.year < 1850 THEN 0 - 17762
            ELSE IF /\ AtOrAfter(dt, NthSunday(dt.year, 3, 2), 3)
                    /\ ~AtOrAfter(dt, NthSunday(dt.year, 11, 1), 2)
                 THEN 0 - 14400 ELSE 0 - 18000

\* tzinfo.fromutc(): the offset in force at a UTC instant. The EU rule
\* switches at 01:00 UTC, the US rule at 02:00 local time (07:00 and 06:00 UTC).
offset_at_utc(zone, u) ==
    CASE zone = "UTC" -> 0
      [] zone = "Asia/Tokyo" -> IF u.year < 1850 THEN 33539 ELSE 32400
      [] zone = "Asia/Kolkata" -> IF u.year < 1850 THEN 21208 ELSE 19800
      [] zone = "Europe/Rome" ->
            IF u.year < 1850 THEN 2996
            ELSE IF /\ AtOrAfter(u, LastSunday(u.year, 3), 1)
                    /\ ~AtOrAfter(u, LastSunday(u.year, 10), 1)
                 THEN 7200 ELSE 3600
      [] zone = "America/New_York" ->
            IF u.year < 1850 THEN 0 - 17762
            ELSE IF /\ AtOrAfter(u, NthSunday(u.year, 3, 2), 7)
                    /\ ~AtOrAfter(u, NthSunday(u.year, 11, 1), 6)
                 THEN 0 - 14400 ELSE 0 - 18000

\* aware.strftime('%z'): sign, hours, minutes, and seconds when not zero
strftime_z(off) ==
    Then(IF off < 0 THEN 0 - off ELSE off, LAMBDA a :
        <<IF off < 0 THEN "-" ELSE "+">> \o Pad2(a \div 3600) \o Pad2((a % 3600) \div 60)
        \o (IF a % 60 # 0 THEN Pad2(a % 60) ELSE <<>>))

\* aware.astimezone(ZoneInfo("UTC")): None on OverflowError (the instant
\* falls outside years 1..9999), else the UTC wall time
astimezone_utc(dt, off) ==
    Then(DaySeconds(dt) - off, LAMBDA t :
    Then(Ordinal(dt) + t \div SecondsPerDay, LAMBDA n :
    Then(t % SecondsPerDay, LAMBDA r :
        IF n < 1 \/ n > MAXORDINAL THEN Fail ELSE
    Then(fromordinal(n), LAMBDA c :
        Some([year |-> c.year, month |-> c.month, day |-> c.day,
              hour |-> r \div 3600, minute |-> (r % 3600) \div 60, second |-> r % 60])))))

\* dt.strftime("%Y:%m:%d %H:%M:%S")
strftime(dt) ==
    Pad4(dt.year) \o <<":">> \o Pad2(dt.month) \o <<":">> \o Pad2(dt.day) \o <<" ">>
    \o Pad2(dt.hour) \o <<":">> \o Pad2(dt.minute) \o <<":">> \o Pad2(dt.second)

\* The try block of perform_sync_operation's date branch: None when any
\* step raises, else the two values it writes.
DateWriteSet(date, timezone_str) ==
    Then(Prefix(date, 19), LAMBDA raw :
    Then(strptime(raw), LAMBDA naive :
        IF naive = Fail THEN Fail
        ELSE IF timezone_str \notin KnownZones THEN Fail ELSE
    Then(utcoffset(timezone_str, Val(naive)), LAMBDA offset :
    Then(astimezone_utc(Val(naive), offset), LAMBDA utc :
    Then(strftime_z(offset), LAMBDA z :
        IF utc = Fail THEN Fail
        ELSE Some([local |-> raw \o Prefix(z, 3) \o <<":">> \o SubSeq(z, 4, Len(z)),
                   utc   |-> strftime(Val(utc))]))))))

\* utc.astimezone(zone): the wall time in zone of a UTC wall time, None on overflow
fromutc(zone, u) == astimezone_utc(u, 0 - offset_at_utc(zone, u))

-----------------------------------------------------------------------------
(* The external tool's output as json.loads decodes it                     *)

\* Each kind of value keeps its content in a field of its own.
JNull == [t |-> "null"]
JBool(b) == [t |-> "bool", b |-> b]
JInt(n) == [t |-> "int", n |-> n]
JFloat(tenths) == [t |-> "float", n |-> tenths]      \* a float, in tenths
JStr(chars) == [t |-> "str", s |-> chars]
JList(items) == [t |-> "list", items |-> items]
JDict(d) == [t |-> "dict", d |-> d]

\* bool(x)
Truthy(x) ==
    CASE x.t = "null" -> FALSE
      [] x.t = "bool" -> x.b
      [] x.t \in {"int", "float"} -> x.n # 0
      [] x.t = "str" -> x.s # <<>>
      [] x.t = "list" -> x.items # <<>>
      [] x.t = "dict" -> DOMAIN x.d # {}

RECURSIVE NatChars(_)
NatChars(n) == IF n < 10 THEN <<DigitChar(n)>> ELSE NatChars(n \div 10) \o <<DigitChar(n % 10)>>
IntChars(n) == IF n < 0 THEN <<"-">> \o NatChars(0 - n) ELSE NatChars(n)
FloatChars(tenths) ==
    LET a == IF tenths < 0 THEN 0 - tenths ELSE tenths
    IN  (IF tenths < 0 THEN <<"-">> ELSE <<>>) \o NatChars(a \div 10) \o <<".", DigitChar(a % 10)>>

RECURSIVE JoinChars(_, _)
JoinChars(parts, sep) ==
    IF parts = <<>> THEN <<>>
    ELSE IF Len(parts) = 1 THEN parts[1]
    ELSE parts[1] \o sep \o JoinChars(Tail(parts), sep)

\* str(x), and repr(x) for the items of a list (a str is quoted there).
\* Only the empty dict is rendered; no tag value drawn here is a dict.
RECURSIVE PyStr(_, _)
PyStr(x, quoted) ==
    CASE x.t = "null" -> <<"N", "o", "n", "e">>
      [] x.t = "bool" -> IF x.b THEN <<"T", "r", "u", "e">> ELSE <<"F", "a", "l", "s", "e">>
      [] x.t = "int" -> IntChars(x.n)
      [] x.t = "float" -> FloatChars(x.n)
      [] x.t = "str" -> IF quoted THEN <<"'">> \o x.s \o <<"'">> ELSE x.s
      [] x.t = "list" ->
            <<"[">> \o JoinChars([i \in 1..Len(x.items) |-> PyStr(x.items[i], TRUE)], <<",", " ">>)
            \o <<"]">>
      [] x.t = "dict" -> <<"{", "}">>

\* float(x): [exc, v] with exc "" on success. Of a str it reads
\* [sign] digits [. digit]; every other text is ValueError.
Raised(e) == [exc |-> e, v |-> 0]
Returned(v) == [exc |-> "", v |-> v]

\* the number a run of digits writes
RECURSIVE DigitsVal(_)
DigitsVal(ds) ==
    IF ds = <<>> THEN 0 ELSE 10 * DigitsVal(SubSeq(ds, 1, Len(ds) - 1)) + DigitVal(ds[Len(ds)])

\* the position of the first "." of cs, Len(cs) + 1 when it has none
RECURSIVE DotAt(_, _)
DotAt(cs, i) == IF i > Len(cs) \/ cs[i] = "." THEN i ELSE DotAt(cs, i + 1)

ParseFloat(chars) ==
    Then(IF At(chars, 1) \in {"-", "+"} THEN Tail(chars) ELSE chars, LAMBDA body :
    Then(DotAt(body, 1), LAMBDA dot :
    Then(SubSeq(body, 1, dot - 1), LAMBDA ip :
    Then(SubSeq(body, dot + 1, Len(body)), LAMBDA fp :
    Then(10 * DigitsVal(ip) + (IF fp = <<>> THEN 0 ELSE DigitVal(fp[1])), LAMBDA mag :
        IF /\ ip # <<>> /\ \A j \in 1..Len(ip) : ip[j] \in Digits
           /\ Len(fp) <= 1 /\ \A j \in 1..Len(fp) : fp[j] \in Digits
        THEN Returned(IF At(chars, 1) = "-" THEN 0 - mag ELSE mag)
        ELSE Raised("ValueError"))))))

\* a conversion that reads text it cannot parse as 0.0
float_lenient(x) ==
    CASE x.t = "int" -> Returned(10 * x.n)
      [] x.t = "float" -> Returned(x.n)
      [] x.t = "bool" -> Returned(IF x.b THEN 10 ELSE 0)
      [] x.t = "str" -> Returned(IF ParseFloat(x.s).exc = "" THEN ParseFloat(x.s).v ELSE 0)
      [] OTHER -> Raised("TypeError")

float(x) ==
    CASE x.t = "int" -> Returned(10 * x.n)
      [] x.t = "float" -> Returned(x.n)
      [] x.t = "bool" -> Returned(IF x.b THEN 10 ELSE 0)
      [] x.t = "str" -> ParseFloat(x.s)
      [] OTHER -> Raised("TypeError")

\* str.strip() and str.split()
RECURSIVE LStrip(_)
LStrip(cs) == IF cs # <<>> /\ Head(cs) \in Whitespace THEN LStrip(Tail(cs)) ELSE cs
RECURSIVE RStrip(_)
RStrip(cs) ==
    IF cs # <<>> /\ cs[Len(cs)] \in Whitespace THEN RStrip(SubSeq(cs, 1, Len(cs) - 1)) ELSE cs
Strip(cs) == RStrip(LStrip(cs))

RECURSIVE WordLen(_)
WordLen(cs) == IF cs = <<>> \/ Head(cs) \in Whitespace THEN 0 ELSE 1 + WordLen(Tail(cs))
RECURSIVE Split(_)
Split(cs) ==
    IF cs = <<>> THEN <<>>
    ELSE IF Head(cs) \in Whitespace THEN Split(Tail(cs))
    ELSE <<SubSeq(cs, 1, WordLen(cs))>> \o Split(SubSeq(cs, WordLen(cs) + 1, Len(cs)))

\* list(dict.fromkeys(words)): later duplicates dropped, first occurrences in order
RECURSIVE FromKeys(_)
FromKeys(words) ==
    IF words = <<>> THEN <<>>
    ELSE LET init == SubSeq(words, 1, Len(words) - 1)
             last == words[Len(words)]
         IN  IF \E i \in 1..Len(init) : init[i] = last
             THEN FromKeys(init) ELSE FromKeys(init) \o <<last>>

\* TimezoneFinder.timezone_at(lng, lat), coordinates in tenths of a degree:
\* ValueError outside the coordinate range, None where no zone contains the point
timezone_at(lat, lon) ==
    IF lat < 0 - 900 \/ lat > 900 \/ lon < 0 - 1800 \/ lon > 1800 THEN Raised("ValueError")
    ELSE [exc |-> "",
          v |-> CASE lat = 419 /\ lon = 125 -> Some("Europe/Rome")
                  [] lat = 357 /\ lon = 1397 -> Some("Asia/Tokyo")
                  [] lat = 407 /\ lon = 0 - 740 -> Some("America/New_York")
                  [] OTHER -> None]

-----------------------------------------------------------------------------
(* analyze_file_metadata(file_path, exif_cmd)                              *)
(* tool is what the environment does when the call runs: launch (does      *)
(* subprocess.run start the process), rc, stdout (text: "empty", "blank",  *)
(* "garbage" that json.loads rejects, or "json" with the decoded value),   *)
(* and tzfinder ("missing": the import failed, "broken": the constructor   *)
(* raises, "ok").                                                          *)

Arg(text) == [text |-> text, chars |-> <<>>]

EmptyResult ==
    [date |-> None, gps |-> None, camera |-> None, tz_suggested |-> None, error |-> None]

\* what a call returns, with the processes it tried to launch, in order
Outcome(ret, runs) == [ret |-> ret, runs |-> runs]

ReadTags ==
    <<"-CreationDate", "-CreateDate", "-GPSLatitude", "-GPSLongitude",
      "-Make", "-Model", "-FNumber", "-ISO", "-ExposureTime">>

AnalysisCmd(file_path, exif_cmd) ==
    <<Arg(Val(exif_cmd)), Arg("-n"), Arg("-json")>>
    \o [i \in 1..Len(ReadTags) |-> Arg(ReadTags[i])] \o <<Arg(file_path)>>

\* metadata.get(key) and metadata.get(key, default)
TagOr(metadata, key, default) == IF key \in DOMAIN metadata THEN metadata[key] ELSE default
Tag(metadata, key) == TagOr(metadata, key, JNull)

\* the "# Date" block
WithDate(result, metadata) ==
    Then(TagOr(metadata, "CreationDate", Tag(metadata, "CreateDate")), LAMBDA d :
        IF Truthy(d) THEN [result EXCEPT !.date = Some(PyStr(d, FALSE))] ELSE result)

\* the lookup without its try: a resolver that is missing or raises ends the block
Resolved_unguarded(gps, tzfinder, found) ==
    IF tzfinder = "ok" /\ found.exc = ""
    THEN Returned([gps EXCEPT !.tz_suggested = found.v])
    ELSE [exc |-> "resolver", v |-> gps]

\* `if TZFINDER_AVAILABLE: try: ... except Exception`: found is what
\* timezone_at does; a missing or failing resolver leaves tz_suggested unset
Resolved(gps, tzfinder, found) ==
    IF tzfinder = "ok" /\ found.exc = ""
    THEN Returned([gps EXCEPT !.tz_suggested = found.v])
    ELSE Returned(gps)

\* the "# GPS" block: [exc, v]; exc is the exception that leaves the block
WithGps(result, metadata, tzfinder) ==
    Then(Tag(metadata, "GPSLatitude"), LAMBDA lat :
    Then(Tag(metadata, "GPSLongitude"), LAMBDA lon :
        IF lat.t = "null" \/ lon.t = "null" THEN Returned(result) ELSE
    Then(float(lat), LAMBDA f_lat :
    Then(float(lon), LAMBDA f_lon :
    Then(IF f_lat.exc # "" THEN f_lat.exc ELSE f_lon.exc, LAMBDA exc :
        IF exc = "ValueError" THEN Returned(result)
        ELSE IF exc # "" THEN [exc |-> exc, v |-> result] ELSE
    Then(timezone_at(f_lat.v, f_lon.v), LAMBDA found :
        Resolved([result EXCEPT !.gps = Some(<<f_lat.v, f_lon.v>>)], tzfinder, found)))))))

\* the "# Camera" block
WithCamera(result, metadata) ==
    Then(TagOr(metadata, "Make", JStr(<<>>)), LAMBDA make :
    Then(TagOr(metadata, "Model", JStr(<<>>)), LAMBDA model :
    Then(Tag(metadata, "FNumber"), LAMBDA fnum :
    Then(Tag(metadata, "ISO"), LAMBDA iso :
    Then(Strip(PyStr(make, FALSE) \o <<" ">> \o PyStr(model, FALSE)), LAMBDA name :
    Then((IF Truthy(make) \/ Truthy(model)
          THEN <<JoinChars(FromKeys(Split(name)), <<" ">>)>> ELSE <<>>)
         \o (IF Truthy(fnum) THEN <<<<"f", "/">> \o PyStr(fnum, FALSE)>> ELSE <<>>)
         \o (IF Truthy(iso) THEN <<<<"I", "S", "O", " ">> \o PyStr(iso, FALSE)>> ELSE <<>>),
         LAMBDA parts :
        IF parts # <<>>
        THEN [result EXCEPT !.camera = Some(JoinChars(parts, <<" ", "|", " ">>))]
        ELSE result))))))

WithError(result, message) == [result EXCEPT !.error = Some(message)]

\* a handler that lets the exception leave the function
Caught_propagates(result, message, runs) == [raised |-> message, runs |-> runs]

\* the outer `except Exception as e: result["error"] = str(e)`; the record
\* keeps what the blocks before the exception put in it
Caught(result, message, runs) == Outcome(WithError(result, message), runs)

\* except json.JSONDecodeError
JSONDecodeError(result) == WithError(result, "JSON decoding error")

\* the stdout test that forgets to strip
NoStdout_unstripped(stdout) == stdout.text = "empty"

\* `not res.stdout.strip()`
NoStdout(stdout) == stdout.text \in {"empty", "blank"}

\* the tool-absent branch without the error
ToolAbsent_no_error == Outcome(EmptyResult, <<>>)

\* the branch taken when the tool handle is absent: nothing is launched
ToolAbsent == Outcome(WithError(EmptyResult, "ExifTool not found"), <<>>)

analyze_file_metadata(file_path, exif_cmd, tool) ==
    IF ~TruthyStr(exif_cmd) THEN ToolAbsent
    ELSE
    Then(<<[cmd |-> AnalysisCmd(file_path, exif_cmd), launched |-> tool.launch]>>, LAMBDA runs :
    Then(tool.stdout.json, LAMBDA data_list :
        IF ~tool.launch
        THEN Caught(EmptyResult, "[Errno 2] No such file or directory", runs)
        ELSE IF NoStdout(tool.stdout) THEN Outcome(EmptyResult, runs)
        ELSE IF tool.stdout.text # "json"                  \* json.loads: JSONDecodeError
        THEN Outcome(JSONDecodeError(EmptyResult), runs)
        ELSE IF ~Truthy(data_list) THEN Outcome(EmptyResult, runs)
        ELSE IF data_list.t = "dict"                       \* data_list[0]: KeyError(0)
        THEN Caught(EmptyResult, "0", runs)
        ELSE IF data_list.t \in {"int", "float", "bool"}   \* data_list[0]: TypeError
        THEN Caught(EmptyResult, "object is not subscriptable", runs)
        ELSE IF data_list.t = "str" \/ data_list.items[1].t # "dict"   \* metadata.get: AttributeError
        THEN Caught(EmptyResult, "object has no attribute 'get'", runs)
        ELSE
    Then(data_list.items[1].d, LAMBDA metadata :
    Then(WithGps(WithDate(EmptyResult, metadata), metadata, tool.tzfinder), LAMBDA located :
        IF located.exc # ""
        THEN Caught(located.v, "float() argument must be a string or a real number", runs)
        ELSE Outcome(WithCamera(located.v, metadata), runs)))))

-----------------------------------------------------------------------------
(* perform_sync_operation(source_path, target_path, sync_date, sync_gps,   *)
(*     sync_camera, timezone_str, exiftool_cmd, source_metadata_pre_analyzed) *)
(* Paths and the tool handle are optional strs (None when absent). env is  *)
(* what the environment does during the call: env.read as for              *)
(* analyze_file_metadata, env.write = [launch, rc] for the write command.  *)

\* the argument f"-{tag}={value}"
Assign(option, value) == [text |-> option, chars |-> value]

\* the checks without the one on the target path
PreconditionsFail_target_unchecked(source_path, target_path, exiftool_cmd) ==
    ~TruthyStr(exiftool_cmd) \/ ~TruthyStr(source_path)

\* the checks before any work
PreconditionsFail(source_path, target_path, exiftool_cmd) ==
    ~TruthyStr(exiftool_cmd) \/ ~TruthyStr(source_path) \/ ~TruthyStr(target_path)

\* the date branch without its test of the date flag
DateArgs_flag_ignored(sync_date, source_metadata, timezone_str) ==
    IF TruthyChars(Get(source_metadata, "date"))
    THEN Then(DateWriteSet(Val(source_metadata["date"]), timezone_str), LAMBDA w :
            IF w = Fail THEN <<>>
            ELSE <<Assign("-QuickTime:CreationDate=", Val(w).local),
                   Assign("-QuickTime:CreateDate=", Val(w).utc),
                   Assign("-QuickTime:ModifyDate=", Val(w).utc),
                   Assign("-FileCreateDate=", Val(w).local),
                   Assign("-FileModifyDate=", Val(w).local)>>)
    ELSE <<>>

\* the date branch extending the command before the transform can raise
DateArgs_partial(sync_date, source_metadata, timezone_str) ==
    IF sync_date /\ TruthyChars(Get(source_metadata, "date"))
    THEN Then(DateWriteSet(Val(source_metadata["date"]), timezone_str), LAMBDA w :
            IF w = Fail
            THEN <<Assign("-FileCreateDate=", Prefix(Val(source_metadata["date"]), 19))>>
            ELSE <<Assign("-QuickTime:CreationDate=", Val(w).local),
                   Assign("-QuickTime:CreateDate=", Val(w).utc),
                   Assign("-QuickTime:ModifyDate=", Val(w).utc),
                   Assign("-FileCreateDate=", Val(w).local),
                   Assign("-FileModifyDate=", Val(w).local)>>)
    ELSE <<>>

\* the date branch: five assignments, or nothing
DateArgs(sync_date, source_metadata, timezone_str) ==
    IF sync_date /\ TruthyChars(Get(source_metadata, "date"))
    THEN Then(DateWriteSet(Val(source_metadata["date"]), timezone_str), LAMBDA w :
            IF w = Fail THEN <<>>
            ELSE <<Assign("-QuickTime:CreationDate=", Val(w).local),
                   Assign("-QuickTime:CreateDate=", Val(w).utc),
                   Assign("-QuickTime:ModifyDate=", Val(w).utc),
                   Assign("-FileCreateDate=", Val(w).local),
                   Assign("-FileModifyDate=", Val(w).local)>>)
    ELSE <<>>

\* the GPS copy emitted whatever the flag
GpsArgs_always(sync_gps, source_path) ==
    <<Arg("-TagsFromFile"), Arg(source_path), Arg("-*GPS*")>>

GpsArgs(sync_gps, source_path) ==
    IF sync_gps THEN <<Arg("-TagsFromFile"), Arg(source_path), Arg("-*GPS*")>> ELSE <<>>

\* the camera copy without the lens identifier
CameraArgs_no_lens_id(sync_camera, source_path) ==
    IF sync_camera
    THEN <<Arg("-TagsFromFile"), Arg(source_path), Arg("-Make"), Arg("-Model"), Arg("-FNumber"),
           Arg("-ISO"), Arg("-ExposureTime"), Arg("-LensModel")>>
    ELSE <<>>

CameraArgs(sync_camera, source_path) ==
    IF sync_camera
    THEN <<Arg("-TagsFromFile"), Arg(source_path), Arg("-Make"), Arg("-Model"), Arg("-FNumber"),
           Arg("-ISO"), Arg("-ExposureTime"), Arg("-LensModel"), Arg("-LensID")>>
    ELSE <<>>

\* the last arguments with the flag after the target
Trailer_flag_last(target_path) == <<Arg(target_path), Arg("-overwrite_original")>>

\* the last arguments of every write command
Trailer(target_path) == <<Arg("-overwrite_original"), Arg(target_path)>>

SyncCmd(source_path, target_path, sync_date, sync_gps, sync_camera, timezone_str, exiftool_cmd, source_metadata) ==
    <<Arg(exiftool_cmd)>>
    \o DateArgs(sync_date, source_metadata, timezone_str)
    \o GpsArgs(sync_gps, source_path)
    \o CameraArgs(sync_camera, source_path)
    \o Trailer(target_path)

\* subprocess.run without check=True: the exit status is not looked at
WriteSucceeds_unchecked(write) == write.launch

\* subprocess.run(cmd, check=True): success only if the process starts and exits 0
WriteSucceeds(write) == write.launch /\ write.rc = 0

\* [ret, raised, runs, meta]: the value returned (raised = ""), or the
\* exception that escapes; the processes the call tried to launch, in order
\* (kind "read" or "write"); the source metadata the command was built from.
SyncOutcome(ret, raised, runs, meta) == [ret |-> ret, raised |-> raised, runs |-> runs, meta |-> meta]

\* the processes an inline analysis tried to launch
ReadRuns(runs) ==
    [i \in 1..Len(runs) |-> [kind |-> "read", cmd |-> runs[i].cmd, launched |-> runs[i].launched]]

perform_sync_operation(source_path, target_path, sync_date, sync_gps, sync_camera, timezone_str, exiftool_cmd, source_metadata_pre_analyzed, env) ==
    IF source_path = None \/ target_path = None        \* os.path.basename(None) in the log line
    THEN SyncOutcome(FALSE, "TypeError", <<>>, <<>>)
    ELSE IF PreconditionsFail(source_path, target_path, exiftool_cmd)
    THEN SyncOutcome(FALSE, "", <<>>, <<>>)
    ELSE IF TruthyDict(source_metadata_pre_analyzed)
    THEN SyncOutcome(WriteSucceeds(env.write), "",
            <<[kind |-> "write",
               cmd |-> SyncCmd(Val(source_path), Val(target_path), sync_date, sync_gps,
                               sync_camera, timezone_str, Val(exiftool_cmd),
                               source_metadata_pre_analyzed),
               launched |-> env.write.launch]>>,
            source_metadata_pre_analyzed)
    ELSE
    Then(analyze_file_metadata(Val(source_path), exiftool_cmd, env.read), LAMBDA analysis :
        IF TruthyStr(Get(analysis.ret, "error"))
        THEN SyncOutcome(FALSE, "", ReadRuns(analysis.runs), analysis.ret)
        ELSE SyncOutcome(WriteSucceeds(env.write), "",
                ReadRuns(analysis.runs)
                \o <<[kind |-> "write",
                      cmd |-> SyncCmd(Val(source_path), Val(target_path), sync_date, sync_gps,
                                      sync_camera, timezone_str, Val(exiftool_cmd), analysis.ret),
                      launched |-> env.write.launch]>>,
                analysis.ret))

-----------------------------------------------------------------------------
(* get_effective_timezone(user_specified_tz, detected_tz_suggested)        *)
(* user_specified_tz is a str, detected_tz_suggested an optional str.      *)

\* the policy without the test of the sentinel
get_effective_timezone_no_sentinel(user_specified_tz, detected_tz_suggested) ==
    IF TruthyStr(detected_tz_suggested) THEN Val(detected_tz_suggested) ELSE user_specified_tz

get_effective_timezone(user_specified_tz, detected_tz_suggested) ==
    IF user_specified_tz = DEFAULT_TIMEZONE /\ TruthyStr(detected_tz_suggested)
    THEN Val(detected_tz_suggested)
    ELSE user_specified_tz

-----------------------------------------------------------------------------
(* The inputs the calls are drawn from                                     *)

\* the date texts a file can carry
Dates ==
    [with_offset |-> <<"2", "0", "2", "3", ":", "0", "5", ":", "0", "1", " ", "1", "0", ":", "0", "0", ":", "0", "0", "+", "0", "2", ":", "0", "0">>,
     utc_tag |-> <<"2", "0", "2", "3", ":", "0", "5", ":", "0", "1", " ", "0", "8", ":", "0", "0", ":", "0", "0">>,
     winter |-> <<"2", "0", "2", "3", ":", "0", "1", ":", "1", "5", " ", "2", "3", ":", "3", "0", ":", "0", "0">>,
     loose |-> <<"2", "0", "2", "3", ":", "5", ":", "1", " ", "1", ":", "2", ":", "3">>,
     dashes |-> <<"2", "0", "2", "3", "-", "0", "5", "-", "0", "1", " ", "1", "0", ":", "0", "0", ":", "0", "0">>,
     early |-> <<"0", "0", "0", "1", ":", "0", "1", ":", "0", "1", " ", "0", "0", ":", "0", "0", ":", "0", "0">>]

Texts ==
    [canon |-> <<"C", "a", "n", "o", "n">>,
     canon_eos_r5 |-> <<"C", "a", "n", "o", "n", " ", "E", "O", "S", " ", "R", "5">>,
     not_a_number |-> <<"a", "b", "c">>]

\* the tag records the tool reports for the files of this model
Tags ==
    [full |-> [CreationDate |-> JStr(Dates.with_offset), CreateDate |-> JStr(Dates.utc_tag),
               GPSLatitude |-> JFloat(419), GPSLongitude |-> JFloat(125),
               Make |-> JStr(Texts.canon), Model |-> JStr(Texts.canon_eos_r5),
               FNumber |-> JFloat(28), ISO |-> JInt(400)],
     tokyo |-> [CreateDate |-> JStr(Dates.winter), GPSLatitude |-> JFloat(357),
                GPSLongitude |-> JFloat(1397)],
     dashes |-> [CreationDate |-> JStr(Dates.dashes), Make |-> JStr(Texts.canon)],
     loose |-> [CreationDate |-> JStr(Dates.loose)],
     early |-> [CreationDate |-> JStr(Dates.early), GPSLatitude |-> JInt(0),
                GPSLongitude |-> JInt(0)],
     gps_list |-> [CreationDate |-> JStr(Dates.winter), GPSLatitude |-> JList(<<JInt(1)>>),
                   GPSLongitude |-> JFloat(125)],
     gps_text |-> [GPSLatitude |-> JStr(Texts.not_a_number), GPSLongitude |-> JFloat(125),
                   ISO |-> JInt(400)],
     blank_creation |-> [CreationDate |-> JStr(<<>>), CreateDate |-> JStr(Dates.utc_tag)],
     off_globe |-> [CreateDate |-> JStr(Dates.winter), GPSLatitude |-> JFloat(950),
                    GPSLongitude |-> JFloat(125), Make |-> JStr(Texts.canon)],
     lon_text |-> [GPSLatitude |-> JFloat(419), GPSLongitude |-> JStr(Texts.not_a_number)],
     manual_lens |-> [Make |-> JStr(Texts.canon), FNumber |-> JFloat(0), ISO |-> JInt(400)],
     none |-> <<>>]

TagSamples == {Tags[k] : k \in DOMAIN Tags}

\* what json.loads can return for the tool's output
JsonSamples ==
    {JNull, JList(<<>>), JInt(5), JStr(<<"x">>), JDict([SourceFile |-> JStr(<<"x">>)]),
     JList(<<JInt(5)>>), JInt(0), JBool(FALSE), JBool(TRUE), JStr(<<>>), JDict(<<>>),
     JList(<<JNull>>), JList(<<JDict(Tags.tokyo), JInt(5)>>)}
    \cup {JList(<<JDict(tags)>>) : tags \in TagSamples}

StdoutSamples ==
    {[text |-> t, json |-> JNull] : t \in {"empty", "blank", "garbage"}}
    \cup {[text |-> "json", json |-> j] : j \in JsonSamples}

\* the behaviours of the tool on a read
Reads(rcs, finders) ==
    {[launch |-> FALSE, rc |-> 0, stdout |-> [text |-> "empty", json |-> JNull], tzfinder |-> "ok"]}
    \cup {[launch |-> TRUE, rc |-> rc, stdout |-> out, tzfinder |-> f] :
            rc \in rcs, out \in StdoutSamples, f \in finders}

\* the behaviours of the tool on a write
Writes == {[launch |-> FALSE, rc |-> 0], [launch |-> TRUE, rc |-> 0], [launch |-> TRUE, rc |-> 1]}

Tool == "exiftool"
SourcePaths == {None, Some(""), Some("a.mov"), Some("b.mov")}
TargetPaths == {None, Some(""), Some("a.mov")}
ToolHandles == {None, Some(Tool)}
Zones == {"UTC", "Europe/Rome", "America/New_York", "Mars/Olympus"}

\* the records a caller can hold from an earlier analysis, and None / {}
PreAnalyzed ==
    {<<>>} \cup {analyze_file_metadata("a.mov", Some(Tool), r).ret : r \in Reads({0}, {"ok"})}

UnusedRead == [launch |-> FALSE, rc |-> 0, stdout |-> [text |-> "empty", json |-> JNull], tzfinder |-> "ok"]

-----------------------------------------------------------------------------
(* One call of perform_sync_operation on drawn arguments                   *)

Idle == <<>>

\* no window: the functions are called directly
NoWindow ==
    /\ GEOPY_AVAILABLE = FALSE /\ self_exiftool_cmd = None
    /\ source_zone = None /\ target_zone = None /\ current_tz = DEFAULT_TIMEZONE
    /\ chk_date = TRUE /\ chk_gps = TRUE /\ chk_cam = TRUE
    /\ current_metadata = <<>> /\ analysis_thread = None /\ geo_thread = None
    /\ events = <<>> /\ dialogs = <<>>
    /\ lbl_date = <<>> /\ lbl_loc = <<>> /\ lbl_cam = <<>>
    /\ settings = <<>> /\ last_sync = Idle /\ user_tz = None /\ closed = TRUE
    /\ used = <<>>

\* the read behaviour is drawn only when the call analyzes the source itself
InitSync ==
    /\ \E s \in SourcePaths, t \in TargetPaths, d \in BOOLEAN, g \in BOOLEAN, c \in BOOLEAN,
          z \in Zones, x \in ToolHandles, m \in PreAnalyzed, w \in Writes :
          \E r \in (IF TruthyDict(m) THEN {UnusedRead} ELSE Reads({0}, {"ok"})) :
            sync_call =
                [source_path |-> s, target_path |-> t, sync_date |-> d, sync_gps |-> g,
                 sync_camera |-> c, timezone_str |-> z, exiftool_cmd |-> x,
                 source_metadata_pre_analyzed |-> m, env |-> [read |-> r, write |-> w]]
    /\ sync_ret = Idle
    /\ an_call = Idle /\ an_ret = Idle /\ tz_call = Idle /\ tz_ret = Idle
    /\ cli_call = Idle /\ cli_ret = Idle
    /\ NoWindow

CallSync ==
    /\ sync_call # Idle /\ sync_ret = Idle
    /\ sync_ret' = perform_sync_operation(
            sync_call.source_path, sync_call.target_path, sync_call.sync_date,
            sync_call.sync_gps, sync_call.sync_camera, sync_call.timezone_str,
            sync_call.exiftool_cmd, sync_call.source_metadata_pre_analyzed, sync_call.env)
    /\ UNCHANGED <<sync_call, an_call, an_ret, tz_call, tz_ret, cli_call, cli_ret, gui_vars>>

SpecSync == InitSync /\ [][CallSync]_vars

-----------------------------------------------------------------------------
(* One call of perform_sync_operation on a record whose timestamp is drawn  *)
(* from a grid of wall times around the year's ends and the DST switches of *)
(* 2023 (Europe/Rome 03-26 and 10-29, America/New_York 03-12 and 11-05),    *)
(* followed by nothing, by an offset or by sub-seconds.                     *)

Timestamps ==
    {[year |-> y, month |-> md[1], day |-> md[2], hour |-> h, minute |-> ms[1], second |-> ms[2]] :
        y \in {1, 1800, 2023, 2024, 9999},
        md \in {<<1, 1>>, <<2, 29>>, <<3, 12>>, <<3, 26>>, <<10, 29>>, <<11, 5>>, <<12, 31>>},
        h \in {0, 1, 2, 3, 23},
        ms \in {<<0, 0>>, <<30, 0>>, <<59, 59>>}}

Suffixes == {<<>>, <<"+", "0", "2", ":", "0", "0">>, <<".", "1", "2", "3">>}

InitDate ==
    /\ \E T \in Timestamps, x \in Suffixes, z \in KnownZones \cup {"Mars/Olympus"},
          g \in BOOLEAN :
            sync_call =
                [source_path |-> Some("a.mov"), target_path |-> Some("b.mov"),
                 sync_date |-> TRUE, sync_gps |-> g, sync_camera |-> FALSE,
                 timezone_str |-> z, exiftool_cmd |-> Some(Tool),
                 source_metadata_pre_analyzed |-> [EmptyResult EXCEPT !.date = Some(strftime(T) \o x)],
                 env |-> [read |-> UnusedRead, write |-> [launch |-> TRUE, rc |-> 0]]]
    /\ sync_ret = Idle
    /\ an_call = Idle /\ an_ret = Idle /\ tz_call = Idle /\ tz_ret = Idle
    /\ cli_call = Idle /\ cli_ret = Idle
    /\ NoWindow

SpecDate == InitDate /\ [][CallSync]_vars

-----------------------------------------------------------------------------
(* One call of analyze_file_metadata on drawn arguments                    *)

FilePaths == {"a.mov", "b.mov"}

InitAnalyze ==
    /\ \E f \in FilePaths, x \in ToolHandles \cup {Some("")},
          r \in Reads({0, 1}, {"missing", "broken", "ok"}) :
            an_call = [file_path |-> f, exif_cmd |-> x, tool |-> r]
    /\ an_ret = Idle
    /\ sync_call = Idle /\ sync_ret = Idle /\ tz_call = Idle /\ tz_ret = Idle
    /\ cli_call = Idle /\ cli_ret = Idle
    /\ NoWindow

CallAnalyze ==
    /\ an_call # Idle /\ an_ret = Idle
    /\ an_ret' = analyze_file_metadata(an_call.file_path, an_call.exif_cmd, an_call.tool)
    /\ UNCHANGED <<sync_call, sync_ret, an_call, tz_call, tz_ret, cli_call, cli_ret, gui_vars>>

SpecAnalyze == InitAnalyze /\ [][CallAnalyze]_vars

-----------------------------------------------------------------------------
(* One call of get_effective_timezone on drawn arguments                   *)

UserZones ==
    {"UTC", "Europe/Rome", "Asia/Tokyo", "America/New_York", "Asia/Kolkata", "Mars/Olympus", ""}
Suggestions == {None} \cup {Some(z) : z \in UserZones}

InitTz ==
    /\ \E u \in UserZones, g \in Suggestions :
            tz_call = [user_specified_tz |-> u, detected_tz_suggested |-> g]
    /\ tz_ret = Idle
    /\ sync_call = Idle /\ sync_ret = Idle /\ an_call = Idle /\ an_ret = Idle
    /\ cli_call = Idle /\ cli_ret = Idle
    /\ NoWindow

\* tz_ret is <<the value returned>>
CallTz ==
    /\ tz_call # Idle /\ tz_ret = Idle
    /\ tz_ret' = <<get_effective_timezone(tz_call.user_specified_tz, tz_call.detected_tz_suggested)>>
    /\ UNCHANGED <<sync_call, sync_ret, an_call, an_ret, tz_call, cli_call, cli_ret, gui_vars>>

SpecTz == InitTz /\ [][CallTz]_vars

-----------------------------------------------------------------------------
(* What a finished call of perform_sync_operation shows                    *)

SyncDone == sync_ret # Idle

\* both paths are strs
StrPaths == sync_call.source_path # None /\ sync_call.target_path # None

\* the call passes the checks before any work
PassesChecks ==
    /\ SyncDone /\ StrPaths
    /\ ~PreconditionsFail(sync_call.source_path, sync_call.target_path, sync_call.exiftool_cmd)

\* the call also has the source's record: handed in, or read without error
HasRecord ==
    /\ PassesChecks
    /\ \/ TruthyDict(sync_call.source_metadata_pre_analyzed)
       \/ ~TruthyStr(Get(sync_ret.meta, "error"))

\* the write commands the call ran or tried to run
WriteRuns == SelectSeq(sync_ret.runs, LAMBDA r : r.kind = "write")
WriteCmds == {sync_ret.runs[i].cmd : i \in {j \in 1..Len(sync_ret.runs) : sync_ret.runs[j].kind = "write"}}

Count(cmd, text) == Cardinality({i \in 1..Len(cmd) : cmd[i].text = text})
Flag(b) == IF b THEN 1 ELSE 0

DateOptions ==
    {"-QuickTime:CreationDate=", "-QuickTime:CreateDate=", "-QuickTime:ModifyDate=",
     "-FileCreateDate=", "-FileModifyDate="}
HasDateArg(cmd) == \E i \in 1..Len(cmd) : cmd[i].text \in DateOptions

CameraTags ==
    {"-Make", "-Model", "-FNumber", "-ISO", "-ExposureTime", "-LensModel", "-LensID"}

\* the arguments after the last -TagsFromFile <file> pair, up to the trailer
LastCopyTags(cmd) ==
    Then(CHOOSE i \in 1..Len(cmd) :
            cmd[i].text = "-TagsFromFile" /\ \A j \in (i + 1)..Len(cmd) : cmd[j].text # "-TagsFromFile",
         LAMBDA i : SubSeq(cmd, i + 2, Len(cmd) - 2))

\* the transform of the date branch fails on the record the command is built from
TransformFails ==
    /\ TruthyChars(Get(sync_ret.meta, "date"))
    /\ DateWriteSet(Val(sync_ret.meta["date"]), sync_call.timezone_str) = Fail

-----------------------------------------------------------------------------
(* Claims about perform_sync_operation                                     *)

\* C1: with the tool handle absent, or the source path empty, or the target
\* path empty, the call returns failure and launches no process at all,
\* whatever the categories and the timezone are.
C1_FailsBeforeAnyRun ==
    (/\ SyncDone /\ StrPaths
     /\ \/ sync_call.exiftool_cmd = None
        \/ sync_call.source_path = Some("")
        \/ sync_call.target_path = Some(""))
    => (sync_ret.raised = "" /\ sync_ret.ret = FALSE /\ sync_ret.runs = <<>>)

C1_Witness ==
    /\ SyncDone
    /\ sync_call.exiftool_cmd = Some(Tool)
    /\ sync_call.source_path = Some("a.mov") /\ sync_call.target_path = Some("")
    /\ sync_call.sync_date /\ sync_call.sync_gps /\ sync_call.sync_camera
    /\ sync_call.env.write.launch /\ sync_call.env.write.rc = 0
    /\ sync_ret.ret = FALSE /\ sync_ret.runs = <<>>

\* C2: a write command carries a date assignment only if the date category
\* is enabled and the source record has a creation timestamp.
C2_DateArgsOnlyIfEnabledAndPresent ==
    SyncDone =>
        \A cmd \in WriteCmds :
            HasDateArg(cmd) => (sync_call.sync_date /\ IsSome(Get(sync_ret.meta, "date")))

C2_Witness ==
    /\ SyncDone /\ ~sync_call.sync_date /\ sync_call.sync_gps
    /\ sync_call.timezone_str = "Europe/Rome"
    /\ TruthyChars(Get(sync_ret.meta, "date")) /\ ~TransformFails
    /\ WriteCmds # {} /\ \A cmd \in WriteCmds : ~HasDateArg(cmd)

C4_OneCopyPerEnabledCategory ==
    SyncDone =>
        \A cmd \in WriteCmds :
            /\ Count(cmd, "-TagsFromFile") = Flag(sync_call.sync_gps) + Flag(sync_call.sync_camera)
            /\ Count(cmd, "-*GPS*") = Flag(sync_call.sync_gps)
            /\ sync_call.sync_gps =>
                    \E i \in 1..(Len(cmd) - 2) :
                        /\ cmd[i] = Arg("-TagsFromFile")
                        /\ cmd[i + 1] = Arg(Val(sync_call.source_path))
                        /\ cmd[i + 2] = Arg("-*GPS*")
            /\ (~sync_call.sync_date /\ sync_call.sync_gps /\ ~sync_call.sync_camera) =>
                    cmd = <<Arg(Val(sync_call.exiftool_cmd)), Arg("-TagsFromFile"),
                            Arg(Val(sync_call.source_path)), Arg("-*GPS*"),
                            Arg("-overwrite_original"), Arg(Val(sync_call.target_path))>>

C4_Witness ==
    /\ SyncDone /\ ~sync_call.sync_date /\ sync_call.sync_gps /\ ~sync_call.sync_camera
    /\ sync_ret.meta # <<>> /\ Get(sync_ret.meta, "gps") = None
    /\ WriteCmds # {}
    /\ \A cmd \in WriteCmds : Count(cmd, "-TagsFromFile") = 1 /\ ~HasDateArg(cmd)

\* C5: with the camera category enabled the camera copy names exactly the
\* seven tags Make, Model, FNumber, ISO, ExposureTime, LensModel, LensID,
\* each once; with it disabled none of them is in the command.
C5_CameraCopyNamesSevenTags ==
    SyncDone =>
        \A cmd \in WriteCmds :
            /\ \A tag \in CameraTags : Count(cmd, tag) = Flag(sync_call.sync_camera)
            /\ sync_call.sync_camera =>
                    /\ Len(LastCopyTags(cmd)) = 7
                    /\ {LastCopyTags(cmd)[i].text : i \in 1..7} = CameraTags
                    /\ \A i \in 1..7 : LastCopyTags(cmd)[i].chars = <<>>

C5_Witness ==
    /\ SyncDone /\ sync_call.sync_camera /\ sync_call.sync_gps /\ sync_call.sync_date
    /\ WriteCmds # {}
    /\ \A cmd \in WriteCmds : HasDateArg(cmd) /\ Len(LastCopyTags(cmd)) = 7

\* a command starts with the tool and ends with -overwrite_original <target>
Framed(cmd) ==
    /\ Len(cmd) >= 3
    /\ cmd[1] = Arg(Val(sync_call.exiftool_cmd))
    /\ cmd[Len(cmd) - 1] = Arg("-overwrite_original")
    /\ cmd[Len(cmd)] = Arg(Val(sync_call.target_path))

\* among the arguments at positions lo..hi, the source path only follows -TagsFromFile
SourceOnlyCopied(cmd, lo, hi) ==
    \A i \in lo..hi :
        cmd[i].text = Val(sync_call.source_path) => (i > 1 /\ cmd[i - 1] = Arg("-TagsFromFile"))

\* C6 as stated: every call that passes the checks runs exactly one write
\* command, framed by the tool and -overwrite_original <target>, in which
\* the source path is only an operand of -TagsFromFile.
C6_Original ==
    PassesChecks =>
        /\ Len(WriteRuns) = 1
        /\ Framed(WriteRuns[1].cmd)
        /\ SourceOnlyCopied(WriteRuns[1].cmd, 1, Len(WriteRuns[1].cmd))

\* C6: every call that passes the checks and has the source's record (handed
\* in, or read by the call itself without error) runs exactly one write
\* command; it starts with the tool and ends with -overwrite_original
\* <target> even when no category contributed an argument; before that final
\* operand the source path is only an operand of -TagsFromFile. A call whose
\* own read of the source reports an error runs no write command.
C6_OneFramedWritePerRecord ==
    /\ HasRecord =>
        /\ Len(WriteRuns) = 1
        /\ Framed(WriteRuns[1].cmd)
        /\ SourceOnlyCopied(WriteRuns[1].cmd, 1, Len(WriteRuns[1].cmd) - 1)
        /\ (~sync_call.sync_gps /\ ~sync_call.sync_camera /\ ~HasDateArg(WriteRuns[1].cmd))
            => Len(WriteRuns[1].cmd) = 3
    /\ (PassesChecks /\ ~HasRecord) => WriteRuns = <<>>

C6_Witness ==
    /\ HasRecord /\ sync_call.sync_date /\ ~sync_call.sync_gps /\ ~sync_call.sync_camera
    /\ sync_call.source_path = Some("b.mov")
    /\ TransformFails
    /\ Len(WriteRuns) = 1 /\ Len(WriteRuns[1].cmd) = 3

\* the write command was run and failed: not launched, or a non-zero exit
WriteFailed == WriteRuns # <<>> /\ ~(sync_call.env.write.launch /\ sync_call.env.write.rc = 0)

\* C7 as stated: a failed write gives failure, a write that is launched and
\* exits 0 gives success, and no call reports failure without a failed write.
C7_Original ==
    (SyncDone /\ StrPaths) =>
        /\ WriteFailed => sync_ret.ret = FALSE
        /\ (WriteRuns # <<>> /\ ~WriteFailed) => sync_ret.ret = TRUE
        /\ sync_ret.ret = FALSE => WriteFailed

\* C7: a write that is not launched or exits non-zero gives failure; a write
\* that is launched and exits 0 gives success; a call reports failure
\* without a failed write only when a check before any work fails or when
\* its own read of the source reports an error, and then it ran no write.
C7_FailureCauses ==
    (SyncDone /\ StrPaths) =>
        /\ sync_ret.raised = ""
        /\ WriteFailed => sync_ret.ret = FALSE
        /\ (WriteRuns # <<>> /\ ~WriteFailed) => sync_ret.ret = TRUE
        /\ sync_ret.ret = FALSE =>
                \/ WriteFailed
                \/ ~PassesChecks /\ sync_ret.runs = <<>>
                \/ /\ PassesChecks /\ ~HasRecord /\ WriteRuns = <<>>
                   /\ ~TruthyDict(sync_call.source_metadata_pre_analyzed)
                   /\ TruthyStr(Get(sync_ret.meta, "error"))

C7_Witness ==
    /\ SyncDone /\ StrPaths /\ PassesChecks
    /\ WriteRuns # <<>> /\ sync_call.env.write.launch /\ sync_call.env.write.rc = 1
    /\ sync_ret.ret = FALSE

-----------------------------------------------------------------------------
(* Claims about get_effective_timezone                                     *)

\* C8: the result is the suggestion exactly when the user's zone is the
\* sentinel "UTC" and a non-empty suggestion is present, the user's zone
\* unchanged in every other case; every call returns, and the result is one
\* of the two arguments.
C8_SuggestionOnlyForSentinel ==
    tz_ret # Idle =>
        /\ (tz_call.user_specified_tz = "UTC" /\ tz_call.detected_tz_suggested \notin {None, Some("")})
            => tz_ret = tz_call.detected_tz_suggested
        /\ ~(tz_call.user_specified_tz = "UTC" /\ tz_call.detected_tz_suggested \notin {None, Some("")})
            => tz_ret = Some(tz_call.user_specified_tz)
        /\ tz_ret \in {Some(tz_call.user_specified_tz), tz_call.detected_tz_suggested}
        /\ Len(tz_ret) = 1

C8_Witness ==
    /\ tz_ret # Idle
    /\ tz_call.user_specified_tz = "Europe/Rome"
    /\ tz_call.detected_tz_suggested = Some("Asia/Tokyo")
    /\ tz_ret = Some("Europe/Rome")

-----------------------------------------------------------------------------
(* Claims about analyze_file_metadata                                      *)

\* C10: called with an absent tool handle, the analysis returns a record
\* whose error is set and whose date, gps, camera and suggested timezone are
\* unset, and it launches no process.
C10_AbsentToolOnlyReportsError ==
    (an_ret # Idle /\ an_call.exif_cmd = None) =>
        /\ IsSome(an_ret.ret.error) /\ Val(an_ret.ret.error) # ""
        /\ an_ret.ret.date = None /\ an_ret.ret.gps = None
        /\ an_ret.ret.camera = None /\ an_ret.ret.tz_suggested = None
        /\ an_ret.runs = <<>>

C10_Witness ==
    /\ an_ret # Idle /\ an_call.exif_cmd = None
    /\ an_call.tool.launch /\ an_call.tool.stdout.text = "json"
    /\ an_ret.ret.error = Some("ExifTool not found") /\ an_ret.runs = <<>>

\* a finished call that had a tool handle and whose process was started
Analyzed == an_ret # Idle /\ TruthyStr(an_call.exif_cmd) /\ an_call.tool.launch

FirstIsRecord(data_list) ==
    data_list.t = "list" /\ data_list.items # <<>> /\ data_list.items[1].t = "dict"

\* the record carries an error and nothing else
OnlyError(result) ==
    /\ TruthyStr(result.error)
    /\ result.date = None /\ result.gps = None
    /\ result.camera = None /\ result.tz_suggested = None

\* C12: non-empty output that does not decode, or decodes to anything but a
\* non-empty list of tag records (the empty list aside, which is a file
\* without metadata), gives a record with the error set and no date, gps,
\* camera or suggested timezone.
C12_MalformedOutputSetsError ==
    (/\ Analyzed
     /\ \/ an_call.tool.stdout.text = "garbage"
        \/ /\ an_call.tool.stdout.text = "json"
           /\ an_call.tool.stdout.json # JList(<<>>)
           /\ ~(/\ FirstIsRecord(an_call.tool.stdout.json)
                /\ \A i \in 1..Len(an_call.tool.stdout.json.items) :
                        an_call.tool.stdout.json.items[i].t = "dict"))
    => OnlyError(an_ret.ret)

\* C13: when the tool cannot be run, or exits non-zero without usable
\* standard output, the record's error is set.
C13_ToolFailureSetsError ==
    (/\ an_ret # Idle /\ TruthyStr(an_call.exif_cmd)
     /\ \/ ~an_call.tool.launch
        \/ an_call.tool.rc # 0 /\ an_call.tool.stdout.text # "json")
    => TruthyStr(an_ret.ret.error)

\* the tag record of the call, {} when the output does not hold one
Metadata ==
    IF an_call.tool.stdout.text = "json" /\ FirstIsRecord(an_call.tool.stdout.json)
    THEN an_call.tool.stdout.json.items[1].d ELSE <<>>

\* the failures no handler inside the function names: the process cannot be
\* started, the decoded output cannot be indexed or is not a record, a GPS
\* value is of a type float() does not take
UnexpectedFailure ==
    /\ TruthyStr(an_call.exif_cmd)
    /\ \/ ~an_call.tool.launch
       \/ /\ an_call.tool.stdout.text = "json"
          /\ Truthy(an_call.tool.stdout.json) /\ ~FirstIsRecord(an_call.tool.stdout.json)
       \/ /\ an_call.tool.launch
          /\ \A k \in {"GPSLatitude", "GPSLongitude"} : Tag(Metadata, k).t # "null"
          /\ \E k \in {"GPSLatitude", "GPSLongitude"} : Tag(Metadata, k).t \in {"list", "dict"}

\* C14: every call returns a record with the five fields, whatever the file
\* path, the tool handle and the tool's behaviour; no exception leaves the
\* function, and an unexpected failure inside it is in the record's error.
C14_AlwaysReturnsARecord ==
    an_ret # Idle =>
        /\ DOMAIN an_ret = {"ret", "runs"}
        /\ DOMAIN an_ret.ret = {"date", "gps", "camera", "tz_suggested", "error"}
        /\ UnexpectedFailure => TruthyStr(an_ret.ret.error)

C14_Witness ==
    /\ Analyzed /\ Metadata = Tags.gps_list
    /\ an_ret.ret.date = Some(Dates.winter) /\ an_ret.ret.gps = None
    /\ TruthyStr(an_ret.ret.error)

\* the tag is in the output with a value (not null, not empty)
Carries(key) == key \in DOMAIN Metadata /\ Truthy(Metadata[key])

\* C15: the record's date is CreationDate when the output has both date
\* tags, CreateDate when only CreateDate is there with a value, and it is
\* unset only when neither tag carries a value.
C15_DatePriority ==
    Analyzed =>
        /\ (Carries("CreationDate") /\ "CreateDate" \in DOMAIN Metadata)
                => an_ret.ret.date = Some(PyStr(Metadata["CreationDate"], FALSE))
        /\ ("CreationDate" \notin DOMAIN Metadata /\ Carries("CreateDate"))
                => an_ret.ret.date = Some(PyStr(Metadata["CreateDate"], FALSE))
        /\ an_ret.ret.date = None => ~Carries("CreationDate") /\ ~Carries("CreateDate")

\* both GPS tags are in the output and float() takes both
GpsParses ==
    /\ Analyzed
    /\ \A k \in {"GPSLatitude", "GPSLongitude"} :
            Tag(Metadata, k).t # "null" /\ float(Tag(Metadata, k)).exc = ""

\* the resolver is not installed, cannot be constructed, or raises on the point
ResolverFails ==
    \/ an_call.tool.tzfinder # "ok"
    \/ timezone_at(float(Tag(Metadata, "GPSLatitude")).v,
                   float(Tag(Metadata, "GPSLongitude")).v).exc # ""

\* C16: when both GPS components parse as floats the record's gps is the
\* pair; when the timezone resolver is unavailable or raises, the record still
\* has that gps, no suggested timezone and no error, and its date and camera
\* are what the date and camera blocks give on their own.
C16_ResolverFailureIsNotFatal ==
    GpsParses =>
        /\ an_ret.ret.gps = Some(<<float(Tag(Metadata, "GPSLatitude")).v,
                                   float(Tag(Metadata, "GPSLongitude")).v>>)
        /\ ResolverFails =>
                /\ an_ret.ret.tz_suggested = None /\ an_ret.ret.error = None
                /\ an_ret.ret.date = WithDate(EmptyResult, Metadata).date
                /\ an_ret.ret.camera = WithCamera(EmptyResult, Metadata).camera

C16_Witness ==
    /\ GpsParses /\ Metadata = Tags.off_globe /\ an_call.tool.tzfinder = "ok"
    /\ an_ret.ret.gps = Some(<<950, 125>>) /\ an_ret.ret.tz_suggested = None
    /\ an_ret.ret.error = None /\ an_ret.ret.camera = Some(Texts.canon)

\* C17: in every returned record a suggested timezone comes with gps
\* coordinates; and when a GPS component is missing from the output or is
\* not a number (text that is no number, a list, a dict), the record has
\* neither gps nor a suggested timezone.
C17_TimezoneOnlyWithGps ==
    an_ret # Idle =>
        /\ IsSome(an_ret.ret.tz_suggested) => IsSome(an_ret.ret.gps)
        /\ (\E k \in {"GPSLatitude", "GPSLongitude"} :
                \/ Tag(Metadata, k).t \in {"null", "list", "dict"}
                \/ Tag(Metadata, k).t = "str" /\ ParseFloat(Tag(Metadata, k).s).exc # "")
           => an_ret.ret.gps = None /\ an_ret.ret.tz_suggested = None

C17_Witness ==
    /\ Analyzed /\ Metadata = Tags.lon_text /\ an_call.tool.tzfinder = "ok"
    /\ an_ret.ret.gps = None /\ an_ret.ret.tz_suggested = None /\ an_ret.ret.error = None

\* the parts of the camera summary as the claim lists them: the name unless
\* make and model are both empty, f/<FNumber> if the tag is in the output,
\* ISO <ISO> if the tag is in the output
PartsByPresence ==
    (IF PyStr(TagOr(Metadata, "Make", JStr(<<>>)), FALSE) # <<>>
        \/ PyStr(TagOr(Metadata, "Model", JStr(<<>>)), FALSE) # <<>>
     THEN <<JoinChars(FromKeys(Split(PyStr(TagOr(Metadata, "Make", JStr(<<>>)), FALSE) \o <<" ">>
                                     \o PyStr(TagOr(Metadata, "Model", JStr(<<>>)), FALSE))),
                      <<" ">>)>>
     ELSE <<>>)
    \o (IF "FNumber" \in DOMAIN Metadata
        THEN <<<<"f", "/">> \o PyStr(Metadata["FNumber"], FALSE)>> ELSE <<>>)
    \o (IF "ISO" \in DOMAIN Metadata
        THEN <<<<"I", "S", "O", " ">> \o PyStr(Metadata["ISO"], FALSE)>> ELSE <<>>)

\* C18: the camera summary is the parts name, f/<FNumber>, ISO <ISO> joined
\* with " | ": the name is the tokens of make then model without later
\* duplicates and is left out only if both are empty, the f-number and ISO
\* parts are there exactly when their tags are in the output, and the summary
\* is unset exactly when there is no part.
C18_CameraSummary ==
    (Analyzed /\ an_call.tool.stdout.text = "json" /\ FirstIsRecord(an_call.tool.stdout.json)
        /\ an_ret.ret.error = None)
    => an_ret.ret.camera =
            IF PartsByPresence = <<>> THEN None
            ELSE Some(JoinChars(PartsByPresence, <<" ", "|", " ">>))

-----------------------------------------------------------------------------
(* Claims about the timestamp transform of perform_sync_operation          *)

\* the value the one write command assigns with option
Written(option) ==
    WriteRuns[1].cmd[CHOOSE i \in 1..Len(WriteRuns[1].cmd) : WriteRuns[1].cmd[i].text = option].chars

\* the call wrote the date
DateWritten == SyncDone /\ Len(WriteRuns) = 1 /\ HasDateArg(WriteRuns[1].cmd)

\* the naive timestamp T of the record: its first 19 characters
NaiveT == Val(strptime(Prefix(Val(sync_call.source_metadata_pre_analyzed.date), 19)))

\* T is a wall time the zone skips when it switches to summer time
InGap(zone, T) ==
    /\ T.year >= 1850 /\ DaySeconds(T) >= 7200 /\ DaySeconds(T) < 10800
    /\ \/ zone = "Europe/Rome" /\ Ordinal(T) = LastSunday(T.year, 3)
       \/ zone = "America/New_York" /\ Ordinal(T) = NthSunday(T.year, 3, 2)

\* C19: outside the wall times a zone skips at a DST switch, the UTC value
\* the sync writes for timestamp T and zone Z, converted back to local time
\* in Z, is T.
C19_RoundTrip ==
    (DateWritten /\ ~InGap(sync_call.timezone_str, NaiveT))
    => fromutc(sync_call.timezone_str, Val(strptime(Written("-QuickTime:CreateDate="))))
            = Some(NaiveT)

C19_Witness ==
    /\ DateWritten /\ sync_call.timezone_str = "America/New_York"
    /\ NaiveT = [year |-> 2023, month |-> 11, day |-> 5, hour |-> 1, minute |-> 30, second |-> 0]
    /\ Written("-QuickTime:CreateDate=")
            = <<"2", "0", "2", "3", ":", "1", "1", ":", "0", "5", " ", "0", "5", ":", "3", "0", ":", "0", "0">>

\* the first 19 characters of the record's timestamp
Raw == Prefix(Val(sync_call.source_metadata_pre_analyzed.date), 19)

\* what follows them in the written local value
WrittenOffset ==
    SubSeq(Written("-QuickTime:CreationDate="), Len(Raw) + 1, Len(Written("-QuickTime:CreationDate=")))

\* sign, two hour digits, colon, two minute digits
IsHHMM(off) ==
    /\ Len(off) = 6 /\ off[1] \in {"+", "-"} /\ off[4] = ":"
    /\ \A i \in {2, 3, 5, 6} : off[i] \in Digits

\* the seconds an offset text of that form stands for
SecondsOf(off) == (IF off[1] = "-" THEN 0 - 1 ELSE 1) * (3600 * V2(off, 2) + 60 * V2(off, 5))

\* C20: the date arguments of a write command are exactly five assignments:
\* QuickTime:CreationDate, FileCreateDate and FileModifyDate get the first 19
\* characters of the timestamp followed by the zone's offset at that instant
\* as sign, two hour digits, colon, two minute digits; QuickTime:CreateDate
\* and QuickTime:ModifyDate get the same instant in UTC as YYYY:MM:DD
\* HH:MM:SS; what follows the 19th character of the timestamp is not used.
C20_FiveDateAssignments ==
    DateWritten =>
        /\ \A o \in DateOptions : Count(WriteRuns[1].cmd, o) = 1
        /\ Written("-FileCreateDate=") = Written("-QuickTime:CreationDate=")
        /\ Written("-FileModifyDate=") = Written("-QuickTime:CreationDate=")
        /\ Written("-QuickTime:ModifyDate=") = Written("-QuickTime:CreateDate=")
        /\ Prefix(Written("-QuickTime:CreationDate="), Len(Raw)) = Raw
        /\ IsHHMM(WrittenOffset)
        /\ SecondsOf(WrittenOffset) = utcoffset(sync_call.timezone_str, NaiveT)
        /\ Len(Written("-QuickTime:CreateDate=")) = 19
        /\ strptime(Written("-QuickTime:CreateDate="))
                = astimezone_utc(NaiveT, SecondsOf(WrittenOffset))

-----------------------------------------------------------------------------
(* __main__: one run of the program from the command line                  *)
(* args is what argparse returns (source and target are optional strs);    *)
(* env is what the machine does during the run: exiftool_cmd is what       *)
(* get_exiftool_path returns, files the paths os.path.exists finds,        *)
(* read and write the tool's behaviour on the analysis and on the write.   *)

\* the flags left as argparse gave them
SyncFlags_as_given(sync_date, sync_gps, sync_camera) ==
    [sync_date |-> sync_date, sync_gps |-> sync_gps, sync_camera |-> sync_camera]

\* `if not any_sync_flag_set:` all three flags are turned on
SyncFlags(sync_date, sync_gps, sync_camera) ==
    IF ~(sync_date \/ sync_gps \/ sync_camera)
    THEN [sync_date |-> TRUE, sync_gps |-> TRUE, sync_camera |-> TRUE]
    ELSE [sync_date |-> sync_date, sync_gps |-> sync_gps, sync_camera |-> sync_camera]

\* an exit that reports success whatever the sync returned
ExitStatus_always_zero(success) == 0

\* sys.exit(0 if success else 1)
ExitStatus(success) == IF success THEN 0 ELSE 1

\* what a run did: the mode it took, its exit status (None while the window
\* runs), the processes it tried to launch, the record of the analysis (None
\* when it is not reached) and the perform_sync_operation call (None when it
\* is not reached)
CliOutcome(mode, status, runs, metadata, sync) ==
    [mode |-> mode, status |-> status, runs |-> runs, metadata |-> metadata, sync |-> sync]

main(args, env) ==
    Then(SyncFlags(args.sync_date, args.sync_gps, args.sync_camera), LAMBDA flags :
        IF ~(TruthyStr(args.source) /\ TruthyStr(args.target))
        THEN CliOutcome("gui", None, <<>>, None, None)
        ELSE IF ~TruthyStr(env.exiftool_cmd) THEN CliOutcome("cli", Some(1), <<>>, None, None)
        ELSE IF Val(args.source) \notin env.files THEN CliOutcome("cli", Some(1), <<>>, None, None)
        ELSE IF Val(args.target) \notin env.files THEN CliOutcome("cli", Some(1), <<>>, None, None)
        ELSE
    Then(analyze_file_metadata(Val(args.source), env.exiftool_cmd, env.read), LAMBDA analysis :
        IF TruthyStr(Get(analysis.ret, "error"))
        THEN CliOutcome("cli", Some(1), ReadRuns(analysis.runs), Some(analysis.ret), None)
        ELSE
    Then(get_effective_timezone(args.timezone, Get(analysis.ret, "tz_suggested")), LAMBDA timezone_to_use :
    Then(perform_sync_operation(args.source, args.target, flags.sync_date, flags.sync_gps,
                                flags.sync_camera, timezone_to_use, env.exiftool_cmd,
                                analysis.ret, [read |-> UnusedRead, write |-> env.write]),
         LAMBDA did :
        CliOutcome("cli", Some(ExitStatus(did.ret)), ReadRuns(analysis.runs) \o did.runs,
                   Some(analysis.ret),
                   Some([sync_date |-> flags.sync_date, sync_gps |-> flags.sync_gps,
                         sync_camera |-> flags.sync_camera, timezone_str |-> timezone_to_use,
                         did |-> did]))))))

\* the behaviours of the tool on the analysis of a run
CliReads ==
    {UnusedRead}
    \cup {[launch |-> TRUE, rc |-> 0, stdout |-> [text |-> t, json |-> JNull], tzfinder |-> "ok"] :
            t \in {"empty", "garbage"}}
    \cup {[launch |-> TRUE, rc |-> 0, stdout |-> [text |-> "json", json |-> JList(<<JDict(tags)>>)],
           tzfinder |-> "ok"] : tags \in {Tags.full, Tags.tokyo, Tags.dashes, Tags.gps_list}}

CliFiles == {"a.mov", "t.mov"}

InitCli ==
    /\ \E s \in {None, Some(""), Some("a.mov")}, t \in {None, Some("t.mov")},
          d \in BOOLEAN, g \in BOOLEAN, c \in BOOLEAN, z \in {DEFAULT_TIMEZONE, "Europe/Rome"},
          x \in ToolHandles, f \in SUBSET CliFiles, r \in CliReads, w \in Writes :
            cli_call =
                [args |-> [source |-> s, target |-> t, sync_date |-> d, sync_gps |-> g,
                           sync_camera |-> c, timezone |-> z],
                 env |-> [exiftool_cmd |-> x, files |-> f, read |-> r, write |-> w]]
    /\ cli_ret = Idle
    /\ sync_call = Idle /\ sync_ret = Idle /\ an_call = Idle /\ an_ret = Idle
    /\ tz_call = Idle /\ tz_ret = Idle
    /\ NoWindow

CallCli ==
    /\ cli_call # Idle /\ cli_ret = Idle
    /\ cli_ret' = main(cli_call.args, cli_call.env)
    /\ UNCHANGED <<sync_call, sync_ret, an_call, an_ret, tz_call, tz_ret, cli_call, gui_vars>>

SpecCli == InitCli /\ [][CallCli]_vars

-----------------------------------------------------------------------------
(* What a finished command-line run shows                                  *)

\* the run took the command-line mode and ended
CliDone == cli_ret # Idle /\ cli_ret.mode = "cli"

\* the run reached perform_sync_operation
CliSynced == CliDone /\ cli_ret.sync # None

\* the write commands the run ran or tried to run
CliWrites == SelectSeq(cli_ret.runs, LAMBDA r : r.kind = "write")

\* flags were given on the command line
AnyFlagGiven == cli_call.args.sync_date \/ cli_call.args.sync_gps \/ cli_call.args.sync_camera

-----------------------------------------------------------------------------
(* Claims about the command line                                           *)

\* C21: when none of --sync-date, --sync-gps, --sync-camera is given the sync
\* runs with all three categories enabled; when at least one is given,
\* exactly the given categories are enabled. The categories are read off the
\* arguments handed to perform_sync_operation and off the write command: it
\* has the GPS copy exactly when GPS is enabled, the camera copy exactly when
\* camera is enabled, and date assignments only when date is enabled.
C21_CategoryDefaults ==
    CliSynced =>
        LET on(given) == IF AnyFlagGiven THEN given ELSE TRUE
            sync == Val(cli_ret.sync)
        IN  /\ sync.sync_date = on(cli_call.args.sync_date)
            /\ sync.sync_gps = on(cli_call.args.sync_gps)
            /\ sync.sync_camera = on(cli_call.args.sync_camera)
            /\ Len(CliWrites) = 1
            /\ Count(CliWrites[1].cmd, "-*GPS*") = Flag(on(cli_call.args.sync_gps))
            /\ Count(CliWrites[1].cmd, "-LensID") = Flag(on(cli_call.args.sync_camera))
            /\ HasDateArg(CliWrites[1].cmd) => on(cli_call.args.sync_date)

\* a run without any flag writes the date and copies GPS and camera
C21_Witness ==
    /\ CliSynced /\ ~AnyFlagGiven
    /\ HasDateArg(CliWrites[1].cmd)
    /\ Count(CliWrites[1].cmd, "-TagsFromFile") = 2

\* C22: a run with source and target exits 0 exactly when the external write
\* was executed and succeeded, and exits 1 otherwise; when the tool is
\* missing, or the source or the target file is missing, or the analysis of
\* the source returns an error, the run exits 1 and no write is executed.
C22_ExitStatus ==
    CliDone =>
        /\ cli_ret.status \in {Some(0), Some(1)}
        /\ cli_ret.status = Some(0)
            <=> (/\ Len(CliWrites) = 1 /\ CliWrites[1].launched
                 /\ cli_call.env.write.launch /\ cli_call.env.write.rc = 0)
        /\ (\/ ~TruthyStr(cli_call.env.exiftool_cmd)
            \/ Val(cli_call.args.source) \notin cli_call.env.files
            \/ Val(cli_call.args.target) \notin cli_call.env.files
            \/ (cli_ret.metadata # None /\ TruthyStr(Get(Val(cli_ret.metadata), "error"))))
           => (cli_ret.status = Some(1) /\ CliWrites = <<>>)

\* a run whose write exits non-zero: exit status 1 after one write
C22_Witness ==
    /\ CliDone /\ cli_ret.status = Some(1)
    /\ Len(CliWrites) = 1 /\ CliWrites[1].launched

-----------------------------------------------------------------------------
(* MetadataSyncerApp: the window, its two worker threads and the signals   *)
(* queued from them to the GUI thread.                                     *)

MaxDrops == 2       \* files the user drops on the two zones
MaxPicks == 1       \* zones the user picks in the selector
MaxToggles == 1     \* checkbox clicks
MaxSyncs == 1       \* clicks on the sync button

SourceFiles == {"a.mov", "b.mov"}
TargetFiles == {"t.mov"}
PickedZones == {"UTC", "Europe/Rome"}

\* what the tool reports for each file
FileTags(path) == IF path = "a.mov" THEN Tags.tokyo ELSE Tags.full

\* the behaviours of the tool on a read of path: not launched, no output, the file's tags
ReadsOf(path) ==
    {UnusedRead,
     [launch |-> TRUE, rc |-> 0, stdout |-> [text |-> "empty", json |-> JNull], tzfinder |-> "ok"],
     [launch |-> TRUE, rc |-> 0,
      stdout |-> [text |-> "json", json |-> JList(<<JDict(FileTags(path))>>)], tzfinder |-> "ok"]}

Signal(sig, payload, sender) == [sig |-> sig, payload |-> payload, sender |-> sender]
Label(text) == [text |-> text]
Running(thread) == thread # None /\ thread.running
Stopped(thread) == IF thread = None THEN None ELSE [thread EXCEPT !.running = FALSE]

\* what one run of a worker does: the signals it emits, in order, and
\* whether run returns
WorkerOutcome(emitted, returned) == [emitted |-> emitted, returned |-> returned]

\* a run that returns without a signal when the record has an error
FileAnalyzerWorker_run_silent_on_error(self, exif_cmd, tool) ==
    Then(analyze_file_metadata(self.file_path, exif_cmd, tool).ret, LAMBDA result :
        IF TruthyStr(Get(result, "error")) THEN WorkerOutcome(<<>>, TRUE)
        ELSE WorkerOutcome(<<Signal("data_ready", result, self.id)>>, TRUE))

\* FileAnalyzerWorker.run: analyze, emit data_ready, return
FileAnalyzerWorker_run(self, exif_cmd, tool) ==
    WorkerOutcome(<<Signal("data_ready", analyze_file_metadata(self.file_path, exif_cmd, tool).ret,
                           self.id)>>, TRUE)

\* FileAnalyzerWorker.run of src/metadata_syncer.pyw, which holds the
\* extraction itself: each branch emits the record and returns; output that
\* json.loads rejects, or whose first element cannot be taken, is emitted as
\* the empty record by the bare except, a failed float() leaves gps unset
FileAnalyzerWorker_run_pyw(self, exif_cmd, tool) ==
    Then(tool.stdout.json, LAMBDA data_list :
        IF ~TruthyStr(exif_cmd)
        THEN WorkerOutcome(<<Signal("data_ready", WithError(EmptyResult, "ExifTool not found"), self.id)>>, TRUE)
        ELSE IF ~tool.launch
        THEN WorkerOutcome(<<Signal("data_ready", WithError(EmptyResult, "[Errno 2] No such file or directory"), self.id)>>, TRUE)
        ELSE IF NoStdout(tool.stdout) \/ tool.stdout.text # "json" \/ ~Truthy(data_list)
        THEN WorkerOutcome(<<Signal("data_ready", EmptyResult, self.id)>>, TRUE)
        ELSE IF data_list.t \in {"dict", "int", "float", "bool"}
        THEN WorkerOutcome(<<Signal("data_ready", EmptyResult, self.id)>>, TRUE)
        ELSE IF data_list.t = "str" \/ data_list.items[1].t # "dict"
        THEN WorkerOutcome(<<Signal("data_ready", WithError(EmptyResult, "object has no attribute 'get'"), self.id)>>, TRUE)
        ELSE
    Then(data_list.items[1].d, LAMBDA metadata :
        WorkerOutcome(<<Signal("data_ready",
                               WithCamera(WithGps(WithDate(EmptyResult, metadata), metadata,
                                                  tool.tzfinder).v, metadata),
                               self.id)>>, TRUE)))

\* one run of each worker on the arguments of an_call
RunWorker ==
    /\ an_call # Idle /\ an_ret = Idle
    /\ an_ret' =
        [run |-> FileAnalyzerWorker_run([file_path |-> an_call.file_path, id |-> 1],
                                        an_call.exif_cmd, an_call.tool),
         pyw |-> FileAnalyzerWorker_run_pyw([file_path |-> an_call.file_path, id |-> 1],
                                            an_call.exif_cmd, an_call.tool)]
    /\ UNCHANGED <<sync_call, sync_ret, an_call, tz_call, tz_ret, cli_call, cli_ret, gui_vars>>

SpecWorker == InitAnalyze /\ [][RunWorker]_vars

\* a data_ready that overtakes the signals queued before it
AnalysisFinish_front(thread, cmd, evs) ==
    {<<Signal("data_ready", analyze_file_metadata(thread.file_path, cmd, r).ret, thread.id)>> \o evs :
        r \in ReadsOf(thread.file_path)}

\* FileAnalyzerWorker.run to its end: the queues with the data_ready it emits
AnalysisFinish(thread, cmd, evs) ==
    {evs \o FileAnalyzerWorker_run(thread, cmd, r).emitted : r \in ReadsOf(thread.file_path)}

\* what Nominatim can answer for a point
GeoResults(gps) == {[text |-> "address", of |-> gps], [text |-> "Unknown Location"],
                    [text |-> "Network Error"]}

\* GeoWorker.run to its end: the queues with the finished it emits, if any
GeoFinish(thread, geopy, evs) ==
    IF geopy THEN {Append(evs, Signal("finished", a, thread.gps)) : a \in GeoResults(thread.gps)}
    ELSE {evs}

\* A worker that loses its last reference is destroyed with its connections:
\* the signals it queued and that were not delivered yet may or may not
\* still reach their slot.
Forget(evs, sig) == {evs, SelectSeq(evs, LAMBDA e : e.sig # sig)}

\* d[key] = value on a dict
SetKey(d, key, value) == [k \in DOMAIN d \cup {key} |-> IF k = key THEN value ELSE d[k]]

\* the date row of refresh_ui_from_state
DateLabel(md, tz, checked) ==
    IF ~checked THEN Label("Disabled")
    ELSE IF ~TruthyChars(Get(md, "date")) THEN Label("No Date Found")
    ELSE
    Then(Prefix(Val(md["date"]), 19), LAMBDA clean :
    Then(strptime(clean), LAMBDA naive :
        IF naive = Fail \/ tz \notin KnownZones THEN Label("Date Error")
        ELSE
    Then(strftime_z(utcoffset(tz, Val(naive))), LAMBDA z :
        [text |-> "date", clean |-> clean,
         off |-> Prefix(z, 3) \o <<":">> \o SubSeq(z, 4, Len(z))])))

\* the camera row
CamLabel(md, checked) ==
    IF ~checked THEN Label("Disabled")
    ELSE IF TruthyChars(Get(md, "camera")) THEN [text |-> "camera", chars |-> Val(md["camera"])]
    ELSE Label("No Camera Data")

\* 1 when an address is memoized in md, else 0
Memoized(md) == IF "address_cached" \in DOMAIN md THEN 1 ELSE 0

\* the location row without the test of the memoized address
StartsLookup_ignores_memo(md, checked) == checked /\ IsSome(Get(md, "gps"))

\* the location row starts a lookup: gps is shown and no address is memoized
StartsLookup(md, checked) ==
    checked /\ IsSome(Get(md, "gps")) /\ "address_cached" \notin DOMAIN md

LocLabel(md, checked) ==
    IF ~checked THEN Label("Disabled")
    ELSE IF ~IsSome(Get(md, "gps")) THEN Label("No GPS Data")
    ELSE IF "address_cached" \in DOMAIN md
    THEN [text |-> "address", address |-> md["address_cached"], gps |-> Val(md["gps"])]
    ELSE [text |-> "Resolving...", gps |-> Val(md["gps"])]

\* refresh_ui_from_state with current_metadata md, the selector at tz, the
\* checkboxes cd, cg, cc and the queue evs: a running lookup is waited for,
\* then, with a source selected, the three rows are redrawn and the location
\* row may start a lookup.
refresh_ui_from_state(md, tz, cd, cg, cc, evs) ==
    \E evs1 \in (IF Running(geo_thread) THEN GeoFinish(geo_thread, GEOPY_AVAILABLE, evs)
                 ELSE {evs}) :
        IF ~TruthyStr(source_zone)
        THEN /\ geo_thread' = Stopped(geo_thread)
             /\ events' = evs1
             /\ UNCHANGED <<lbl_date, lbl_loc, lbl_cam>>
        ELSE /\ lbl_date' = DateLabel(md, tz, cd)
             /\ lbl_loc' = LocLabel(md, cg)
             /\ lbl_cam' = CamLabel(md, cc)
             /\ IF StartsLookup(md, cg)
                THEN /\ geo_thread' = [gps |-> Val(md["gps"]), running |-> TRUE]
                     /\ events' \in (IF geo_thread = None THEN {evs1} ELSE Forget(evs1, "finished"))
                ELSE /\ geo_thread' = Stopped(geo_thread)
                     /\ events' = evs1

\* __init__ and load_settings: the selector and the checkboxes take the
\* persisted values; no file is selected, so the refreshes redraw nothing
Init ==
    /\ GEOPY_AVAILABLE \in BOOLEAN
    /\ self_exiftool_cmd \in ToolHandles
    /\ settings \in {[last_tz |-> z, copy_date |-> TRUE, copy_gps |-> TRUE, copy_cam |-> TRUE] :
                        z \in PickedZones}
    /\ current_tz = settings.last_tz
    /\ chk_date = settings.copy_date /\ chk_gps = settings.copy_gps /\ chk_cam = settings.copy_cam
    /\ source_zone = None /\ target_zone = None
    /\ current_metadata = <<>> /\ analysis_thread = None /\ geo_thread = None
    /\ events = <<>> /\ dialogs = <<>>
    /\ lbl_date = Label("Waiting for file...") /\ lbl_loc = Label("Waiting for file...")
    /\ lbl_cam = Label("Waiting for file...")
    /\ last_sync = Idle /\ user_tz = None /\ closed = FALSE
    /\ used = [drops |-> 0, picks |-> 0, toggles |-> 0, syncs |-> 0, held |-> 0, memo |-> 0]
    /\ sync_call = Idle /\ sync_ret = Idle /\ an_call = Idle /\ an_ret = Idle
    /\ tz_call = Idle /\ tz_ret = Idle /\ cli_call = Idle /\ cli_ret = Idle

\* the user can act on the window: it is open and no modal box is over it
Interactive == ~closed /\ dialogs = <<>>

\* source_zone.set_file(path) and on_source_dropped(path)
DropSource ==
    /\ Interactive /\ used.drops < MaxDrops
    /\ \E path \in SourceFiles :
        /\ source_zone' = Some(path)
        /\ analysis_thread' = [file_path |-> path, running |-> TRUE, id |-> used.drops + 1]
        /\ \E evs1 \in (IF Running(analysis_thread)
                        THEN AnalysisFinish(analysis_thread, self_exiftool_cmd, events)
                        ELSE {events}) :
              events' \in (IF analysis_thread = None THEN {evs1} ELSE Forget(evs1, "data_ready"))
    /\ lbl_date' = Label("Analyzing...") /\ lbl_loc' = Label("Analyzing...")
    /\ lbl_cam' = Label("Analyzing...")
    /\ current_metadata' = <<>>
    /\ used' = [used EXCEPT !.drops = @ + 1, !.held = 0]
    /\ UNCHANGED <<GEOPY_AVAILABLE, self_exiftool_cmd, target_zone, current_tz, chk_date, chk_gps,
                   chk_cam, geo_thread, dialogs, settings, last_sync, user_tz, closed, call_vars>>

\* target_zone.set_file(path): no slot is connected
DropTarget ==
    /\ Interactive /\ used.drops < MaxDrops
    /\ \E path \in TargetFiles : target_zone' = Some(path)
    /\ used' = [used EXCEPT !.drops = @ + 1]
    /\ UNCHANGED <<GEOPY_AVAILABLE, self_exiftool_cmd, source_zone, current_tz, chk_date, chk_gps,
                   chk_cam, current_metadata, analysis_thread, geo_thread, events, dialogs,
                   lbl_date, lbl_loc, lbl_cam, settings, last_sync, user_tz, closed, call_vars>>

\* the user picks a zone in the popup: set_timezone, tzChanged, refresh_ui_from_state
PickTimezone ==
    /\ Interactive /\ used.picks < MaxPicks
    /\ \E tz \in PickedZones :
        /\ current_tz' = tz
        /\ user_tz' = Some(tz)
        /\ refresh_ui_from_state(current_metadata, tz, chk_date, chk_gps, chk_cam, events)
    /\ used' = [used EXCEPT !.picks = @ + 1, !.memo = @ + Memoized(current_metadata)]
    /\ UNCHANGED <<GEOPY_AVAILABLE, self_exiftool_cmd, source_zone, target_zone, chk_date, chk_gps,
                   chk_cam, current_metadata, analysis_thread, dialogs, settings, last_sync,
                   closed, call_vars>>

\* the user clicks a checkbox: stateChanged, refresh_ui_from_state
ToggleDate ==
    /\ Interactive /\ used.toggles < MaxToggles
    /\ chk_date' = ~chk_date
    /\ refresh_ui_from_state(current_metadata, current_tz, ~chk_date, chk_gps, chk_cam, events)
    /\ used' = [used EXCEPT !.toggles = @ + 1, !.memo = @ + Memoized(current_metadata)]
    /\ UNCHANGED <<GEOPY_AVAILABLE, self_exiftool_cmd, source_zone, target_zone, current_tz,
                   chk_gps, chk_cam, current_metadata, analysis_thread, dialogs, settings,
                   last_sync, user_tz, closed, call_vars>>

ToggleGps ==
    /\ Interactive /\ used.toggles < MaxToggles
    /\ chk_gps' = ~chk_gps
    /\ refresh_ui_from_state(current_metadata, current_tz, chk_date, ~chk_gps, chk_cam, events)
    /\ used' = [used EXCEPT !.toggles = @ + 1, !.memo = @ + Memoized(current_metadata)]
    /\ UNCHANGED <<GEOPY_AVAILABLE, self_exiftool_cmd, source_zone, target_zone, current_tz,
                   chk_date, chk_cam, current_metadata, analysis_thread, dialogs, settings,
                   last_sync, user_tz, closed, call_vars>>

ToggleCam ==
    /\ Interactive /\ used.toggles < MaxToggles
    /\ chk_cam' = ~chk_cam
    /\ refresh_ui_from_state(current_metadata, current_tz, chk_date, chk_gps, ~chk_cam, events)
    /\ used' = [used EXCEPT !.toggles = @ + 1, !.memo = @ + Memoized(current_metadata)]
    /\ UNCHANGED <<GEOPY_AVAILABLE, self_exiftool_cmd, source_zone, target_zone, current_tz,
                   chk_date, chk_gps, current_metadata, analysis_thread, dialogs, settings,
                   last_sync, user_tz, closed, call_vars>>

\* FileAnalyzerWorker.run, in its own thread: analyze, emit data_ready
AnalysisWorkerRun ==
    /\ ~closed /\ Running(analysis_thread)
    /\ events' \in AnalysisFinish(analysis_thread, self_exiftool_cmd, events)
    /\ analysis_thread' = Stopped(analysis_thread)
    /\ UNCHANGED <<GEOPY_AVAILABLE, self_exiftool_cmd, source_zone, target_zone, current_tz,
                   chk_date, chk_gps, chk_cam, current_metadata, geo_thread, dialogs, lbl_date,
                   lbl_loc, lbl_cam, settings, last_sync, user_tz, closed, used, call_vars>>

\* GeoWorker.run, in its own thread
GeoWorkerRun ==
    /\ ~closed /\ Running(geo_thread)
    /\ events' \in GeoFinish(geo_thread, GEOPY_AVAILABLE, events)
    /\ geo_thread' = Stopped(geo_thread)
    /\ UNCHANGED <<GEOPY_AVAILABLE, self_exiftool_cmd, source_zone, target_zone, current_tz,
                   chk_date, chk_gps, chk_cam, current_metadata, analysis_thread, dialogs,
                   lbl_date, lbl_loc, lbl_cam, settings, last_sync, user_tz, closed, used,
                   call_vars>>

\* on_analysis_finished after its "Read Error" box: the selector takes the
\* suggestion of data without tzChanged, then refresh_ui_from_state
AfterReadError(data, md, evs) ==
    /\ current_tz' = IF TruthyStr(Get(data, "tz_suggested")) THEN Val(data["tz_suggested"])
                     ELSE current_tz
    /\ refresh_ui_from_state(md, current_tz', chk_date, chk_gps, chk_cam, evs)

\* on_analysis_finished(data), the oldest queued signal being a data_ready.
\* With an error in data the handler stops in QMessageBox.warning, whose
\* event loop goes on delivering queued signals.
on_analysis_finished ==
    /\ ~closed /\ events # <<>> /\ Head(events).sig = "data_ready"
    /\ current_metadata' = Head(events).payload
    /\ IF TruthyStr(Get(Head(events).payload, "error"))
       THEN /\ dialogs' = Append(dialogs, Head(events).payload)
            /\ events' = Tail(events)
            /\ UNCHANGED <<current_tz, geo_thread, lbl_date, lbl_loc, lbl_cam>>
       ELSE /\ AfterReadError(Head(events).payload, Head(events).payload, Tail(events))
            /\ UNCHANGED dialogs
    /\ used' = [used EXCEPT !.held = Head(events).sender]
    /\ UNCHANGED <<GEOPY_AVAILABLE, self_exiftool_cmd, source_zone, target_zone, chk_date, chk_gps,
                   chk_cam, analysis_thread, settings, last_sync, user_tz, closed, call_vars>>

\* the user closes the innermost "Read Error" box: its handler goes on
DismissReadError ==
    /\ ~closed /\ dialogs # <<>>
    /\ dialogs' = SubSeq(dialogs, 1, Len(dialogs) - 1)
    /\ AfterReadError(dialogs[Len(dialogs)], current_metadata, events)
    /\ UNCHANGED <<GEOPY_AVAILABLE, self_exiftool_cmd, source_zone, target_zone, chk_date, chk_gps,
                   chk_cam, current_metadata, analysis_thread, settings, last_sync, user_tz,
                   closed, used, call_vars>>

\* on_address_ready(address), the oldest queued signal being a finished
on_address_ready ==
    /\ ~closed /\ events # <<>> /\ Head(events).sig = "finished"
    /\ events' = Tail(events)
    /\ current_metadata' = SetKey(current_metadata, "address_cached", Head(events).payload)
    /\ lbl_loc' = IF IsSome(Get(current_metadata, "gps")) /\ chk_gps
                  THEN [text |-> "address", address |-> Head(events).payload,
                        gps |-> Val(current_metadata["gps"])]
                  ELSE lbl_loc
    /\ UNCHANGED <<GEOPY_AVAILABLE, self_exiftool_cmd, source_zone, target_zone, current_tz,
                   chk_date, chk_gps, chk_cam, analysis_thread, geo_thread, dialogs, lbl_date,
                   lbl_cam, settings, last_sync, user_tz, closed, used, call_vars>>

\* the four setValue calls without the flags
SavedSettings_zone_only(effective_tz, copy_date, copy_gps, copy_cam) ==
    [settings EXCEPT !.last_tz = effective_tz]

\* the four setValue calls of run_sync
SavedSettings(effective_tz, copy_date, copy_gps, copy_cam) ==
    [last_tz |-> effective_tz, copy_date |-> copy_date, copy_gps |-> copy_gps, copy_cam |-> copy_cam]

\* run_sync, the sync button. The two boxes that reject the click and the
\* box that reports the result are closed without anything left to do in
\* the handler. The preferences are saved before the sync runs.
run_sync ==
    /\ Interactive /\ used.syncs < MaxSyncs
    /\ used' = [used EXCEPT !.syncs = @ + 1]
    /\ IF ~TruthyStr(self_exiftool_cmd) \/ ~TruthyStr(source_zone) \/ ~TruthyStr(target_zone)
       THEN UNCHANGED <<settings, last_sync>>
       ELSE \E effective_tz \in {get_effective_timezone(current_tz,
                                                        Get(current_metadata, "tz_suggested"))} :
            /\ settings' = SavedSettings(effective_tz, chk_date, chk_gps, chk_cam)
            /\ \E w \in Writes :
               \E r \in (IF TruthyDict(current_metadata) THEN {UnusedRead}
                         ELSE ReadsOf(Val(source_zone))) :
                    last_sync' =
                        [source_path |-> source_zone, target_path |-> target_zone,
                         timezone_str |-> effective_tz, picked |-> user_tz,
                         preview |-> lbl_date, held |-> used.held,
                         did |-> perform_sync_operation(
                                    source_zone, target_zone, chk_date, chk_gps, chk_cam,
                                    effective_tz, self_exiftool_cmd, current_metadata,
                                    [read |-> r, write |-> w])]
    /\ UNCHANGED <<GEOPY_AVAILABLE, self_exiftool_cmd, source_zone, target_zone, current_tz,
                   chk_date, chk_gps, chk_cam, current_metadata, analysis_thread, geo_thread,
                   events, dialogs, lbl_date, lbl_loc, lbl_cam, user_tz, closed, call_vars>>

\* closeEvent: both workers are waited for; what they emit is never delivered
closeEvent ==
    /\ Interactive
    /\ closed' = TRUE
    /\ analysis_thread' = Stopped(analysis_thread)
    /\ geo_thread' = Stopped(geo_thread)
    /\ UNCHANGED <<GEOPY_AVAILABLE, self_exiftool_cmd, source_zone, target_zone, current_tz,
                   chk_date, chk_gps, chk_cam, current_metadata, events, dialogs, lbl_date,
                   lbl_loc, lbl_cam, settings, last_sync, user_tz, used, call_vars>>

Next ==
    \/ DropSource \/ DropTarget \/ PickTimezone
    \/ ToggleDate \/ ToggleGps \/ ToggleCam
    \/ AnalysisWorkerRun \/ GeoWorkerRun
    \/ on_analysis_finished \/ DismissReadError \/ on_address_ready
    \/ run_sync \/ closeEvent

Spec == Init /\ [][Next]_vars

-----------------------------------------------------------------------------
(* Claims about the window                                                 *)

\* C9: the zone the user picked in the selector wins over the suggestion of
\* the analysis, end to end: whenever run_sync syncs after the user picked a
\* zone (other than the sentinel "UTC", which stands for no choice), the
\* zone handed to perform_sync_operation for the date write is the zone the
\* user last picked, whatever analyses completed in between.
C9_PickedZoneIsUsed ==
    (/\ last_sync # Idle
     /\ IsSome(last_sync.picked) /\ Val(last_sync.picked) # DEFAULT_TIMEZONE)
    => last_sync.timezone_str = Val(last_sync.picked)

-----------------------------------------------------------------------------
(* What a state of the window shows                                        *)

RecordKeys == {"date", "gps", "camera", "tz_suggested", "error"}

\* a record as the analysis returned it: without the address memoized later
Five(md) == [k \in DOMAIN md \cap RecordKeys |-> md[k]]

\* the records an analysis of path can return in this window
ResultsOf(path) == {analyze_file_metadata(path, self_exiftool_cmd, r).ret : r \in ReadsOf(path)}

\* the write commands of a sync
SyncWrites(did) == SelectSeq(did.runs, LAMBDA r : r.kind = "write")

\* run_sync would reject the click
Rejected == ~TruthyStr(self_exiftool_cmd) \/ ~TruthyStr(source_zone) \/ ~TruthyStr(target_zone)

\* the step is a click on the sync button
SyncStep == used'.syncs # used.syncs

\* the step is a pick in the selector or a click on a checkbox
RefreshStep == used'.picks # used.picks \/ used'.toggles # used.toggles

\* the step selects a source
SourceStep == used'.drops # used.drops /\ analysis_thread' # analysis_thread

\* a source is selected, no analysis worker runs and no data_ready is queued
AllDelivered ==
    /\ ~closed /\ TruthyStr(source_zone)
    /\ ~Running(analysis_thread)
    /\ \A i \in 1..Len(events) : events[i].sig # "data_ready"

\* C26: every run of an analysis worker emits data_ready once and only once
\* and then returns, whatever the extraction does (tool absent, tool not
\* launched, empty output, malformed output, a normal result, an unexpected
\* exception); the payload of FileAnalyzerWorker.run is the record
\* analyze_file_metadata returns for the worker's file. The same holds for
\* the worker of src/metadata_syncer.pyw.
C26_EmitsExactlyOnce ==
    an_ret # Idle =>
        /\ \A w \in {an_ret.run, an_ret.pyw} :
            /\ Len(w.emitted) = 1 /\ w.emitted[1].sig = "data_ready" /\ w.returned
            /\ DOMAIN w.emitted[1].payload = RecordKeys
        /\ an_ret.run.emitted[1].payload
            = analyze_file_metadata(an_call.file_path, an_call.exif_cmd, an_call.tool).ret

\* a run on output that json.loads rejects: one data_ready, with the error
C26_Witness ==
    /\ an_ret # Idle /\ TruthyStr(an_call.exif_cmd) /\ an_call.tool.launch
    /\ an_call.tool.stdout.text = "garbage"
    /\ Len(an_ret.run.emitted) = 1
    /\ an_ret.run.emitted[1].payload.error = Some("JSON decoding error")

\* C23: in the window, a record whose error field is set is never used for
\* writing: a sync whose source record has an error launches no write.
C23_ErrorBlocksWrite ==
    (last_sync # Idle /\ TruthyStr(Get(last_sync.did.meta, "error")))
    => \A i \in 1..Len(SyncWrites(last_sync.did)) : ~SyncWrites(last_sync.did)[i].launched

\* C24 as stated: a sync attempt whose external write fails, or that is
\* rejected because the tool or a file is missing, leaves the persisted
\* preferences unchanged.
C24_Original ==
    [][(/\ SyncStep
        /\ \/ Rejected
           \/ (SyncWrites(last_sync'.did) # <<>> /\ ~last_sync'.did.ret))
       => settings' = settings]_vars

\* C24: the persisted preferences are written by every sync attempt that
\* passes the tool and file checks, whatever the outcome of its write: they
\* become the effective timezone and the three checkboxes of that attempt.
\* A rejected attempt, and every other step, leaves them unchanged.
C24_SavedByEveryAcceptedSync ==
    [][IF SyncStep /\ ~Rejected
       THEN settings' = [last_tz |-> last_sync'.timezone_str, copy_date |-> chk_date,
                         copy_gps |-> chk_gps, copy_cam |-> chk_cam]
       ELSE settings' = settings]_vars

\* a sync whose write failed has saved a flag the user had just cleared
C24_Witness ==
    /\ last_sync # Idle /\ ~last_sync.did.ret /\ SyncWrites(last_sync.did) # <<>>
    /\ ~settings.copy_gps /\ settings.last_tz = last_sync.timezone_str

\* C25: once every analysis worker has finished and every result was
\* delivered, the record the window holds came from the worker of the last
\* selected source and is a result of analyzing that source.
C25_LastWriterWins ==
    AllDelivered =>
        /\ analysis_thread.file_path = Val(source_zone)
        /\ used.held = analysis_thread.id
        /\ Five(current_metadata) \in ResultsOf(Val(source_zone))

\* a.mov then b.mov were selected and the record of b.mov is held
C25_Witness ==
    /\ AllDelivered /\ used.drops = 2 /\ target_zone = None
    /\ source_zone = Some("b.mov") /\ used.held = 2
    /\ Get(current_metadata, "camera") # None

\* C27: with an address memoized in the held record, a refresh caused by a
\* pick in the selector or a click on a checkbox starts no lookup and, when
\* the location row is enabled, shows the memoized address; selecting a
\* source leaves no address memoized.
C27_AddressMemoized ==
    [][/\ (RefreshStep /\ "address_cached" \in DOMAIN current_metadata)
          => /\ ~Running(geo_thread')
             /\ (chk_gps' /\ IsSome(Get(current_metadata, "gps")))
                => lbl_loc' = [text |-> "address", address |-> current_metadata["address_cached"],
                               gps |-> Val(current_metadata["gps"])]
       /\ SourceStep => "address_cached" \notin DOMAIN current_metadata']_vars

\* a refresh found the address memoized, and the location row shows it
C27_Witness ==
    /\ used.memo > 0 /\ lbl_loc.text = "address"
    /\ "address_cached" \in DOMAIN current_metadata
    /\ lbl_loc.address = current_metadata["address_cached"]

\* C28: in every state of the window the held record is empty or is the
\* result of analyzing the selected source, delivered by that source's
\* worker; and the record a sync builds its command from is a result of
\* analyzing the source path of that sync.
C28_HeldRecordIsOfSource ==
    /\ ~closed =>
        \/ current_metadata = <<>>
        \/ /\ TruthyStr(source_zone) /\ used.held = analysis_thread.id
           /\ Five(current_metadata) \in ResultsOf(Val(source_zone))
    /\ last_sync # Idle
        => Five(last_sync.did.meta) \in ResultsOf(Val(last_sync.source_path))

\* C29: when the date row showed a preview at the click on sync, and the
\* record is a result of analyzing the source, the local date written to the
\* target is the previewed value: same 19 characters, same offset.
C29_PreviewMatchesWrite ==
    (/\ last_sync # Idle /\ last_sync.preview.text = "date"
     /\ Five(last_sync.did.meta) \in ResultsOf(Val(last_sync.source_path)))
    => \A i \in 1..Len(last_sync.did.runs) :
         last_sync.did.runs[i].kind = "write" =>
            \A j \in 1..Len(last_sync.did.runs[i].cmd) :
                last_sync.did.runs[i].cmd[j].text = "-QuickTime:CreationDate="
                => last_sync.did.runs[i].cmd[j].chars
                    = last_sync.preview.clean \o last_sync.preview.off

\* C30: an address memoized in the held record, or shown in the location
\* row, is the answer to a lookup of the coordinates it is stored or shown
\* with.
C30_AddressIsOfRecord ==
    /\ (/\ "address_cached" \in DOMAIN current_metadata
        /\ current_metadata["address_cached"].text = "address"
        /\ IsSome(Get(current_metadata, "gps")))
       => current_metadata["address_cached"].of = Val(current_metadata["gps"])
    /\ (lbl_loc.text = "address" /\ lbl_loc.address.text = "address")
       => lbl_loc.address.of = lbl_loc.gps

====
